---- MODULE Spec2Model ----
(***************************************************************************)
(* A model of the tender pipeline of Opportender-Backend:                  *)
(*   - the relevance filter (services/relevance_filter.py) on top of the   *)
(*     embedder (services/embedder.py) and cosine_similarity (helpers.py), *)
(*   - the retry orchestrator and the pipeline driver (tenderbot.py),      *)
(*   - the store wrapper (services/db.py).                                 *)
(* Text is a sequence of one-character strings, so that strip, lower and   *)
(* the substring test are computed, not assumed.  A float is modelled by   *)
(* an exact integer or rational; embeddings are integer vectors (cosine    *)
(* similarity does not depend on the scale of either vector).              *)
(***************************************************************************)
EXTENDS Integers, Sequences, FiniteSets, TLC

VARIABLES
    cfg,        \* the Config the bot was built from
    emb,        \* Embedder: [client, cache, calls]
    rel,        \* RelevanceFilter: [keywords, query_vec, threshold]
    probe,      \* the last call made on the filter and what it returned
    feed,       \* what each portal lists: scraper name -> list of items
    store,      \* the tenders table: a list of stored rows
    run,        \* run_once: its position and its local variables
    obs,        \* what the current (or last finished) run did, as observed
    hist,       \* what the run before the current one did, as observed
    faults      \* failures so far of the provider, of store updates and of sinks

vars == <<cfg, emb, rel, probe, feed, store, run, obs, hist, faults>>

-----------------------------------------------------------------------------
(* Bounds of the model *)

\* cfg.embedding_dim as used in the model (1536 in a deployment)
Dim == 2

\* calls made on the relevance filter in one behaviour of SpecRel
MaxProbes == 2

\* run_once is called at most MaxRuns times by _loop
MaxRuns == 2

\* cfg.retry_attempts ranges over -1 .. MaxRetry
MaxRetry == 1

\* a portal lists at most MaxFeed items
MaxFeed == 2

\* at most MaxFaults calls of the provider, of the store's updates and of
\* the sinks fail
MaxFaults == 1

-----------------------------------------------------------------------------
(* Text *)

\* Python's None, for an Optional[str] field
None == <<"None">>

WS == {" ", "\t", "\n"}

UPPER == <<"A","B","C","D","E","F","G","H","I","J","K","L","M",
           "N","O","P","Q","R","S","T","U","V","W","X","Y","Z">>
LOWER == <<"a","b","c","d","e","f","g","h","i","j","k","l","m",
           "n","o","p","q","r","s","t","u","v","w","x","y","z">>

\* str.lower() on one character
LowerChar(c) ==
    IF \E i \in 1..Len(UPPER) : UPPER[i] = c
    THEN LOWER[CHOOSE i \in 1..Len(UPPER) : UPPER[i] = c]
    ELSE c

\* str.lower()
Lower(s) == [i \in 1..Len(s) |-> LowerChar(s[i])]

\* str.strip(): leading and trailing whitespace removed
RECURSIVE LStrip(_)
LStrip(s) == IF s # <<>> /\ s[1] \in WS THEN LStrip(Tail(s)) ELSE s

RECURSIVE RStrip(_)
RStrip(s) ==
    IF s # <<>> /\ s[Len(s)] \in WS THEN RStrip(SubSeq(s, 1, Len(s) - 1)) ELSE s

Strip(s) == RStrip(LStrip(s))

\* Python's `k in hay` for strings
IsSubstr(k, hay) ==
    \E i \in 0..(Len(hay) - Len(k)) : SubSeq(hay, i + 1, i + Len(k)) = k

\* Python's `x or ''` for an Optional[str]
OrEmpty(x) == IF x = None THEN <<>> ELSE x

-----------------------------------------------------------------------------
(* helpers.py: cosine_similarity *)

RECURSIVE DotFrom(_, _, _)
DotFrom(a, b, i) ==
    IF i > Len(a) \/ i > Len(b) THEN 0 ELSE a[i] * b[i] + DotFrom(a, b, i + 1)

Dot(a, b) == DotFrom(a, b, 1)

\* The value dot / (sqrt(na) * sqrt(nb)) is kept exact as the pair
\* [num |-> dot, sq |-> na * nb], which stands for num / sqrt(sq);
\* the degenerate cases return 0.0 = [num |-> 0, sq |-> 1].
Zero == [num |-> 0, sq |-> 1]

cosine_similarity(a, b) ==
    IF a = <<>> \/ b = <<>> \/ Len(a) # Len(b) THEN Zero
    ELSE LET dot == Dot(a, b)
             na  == Dot(a, a)
             nb  == Dot(b, b)
         IN  IF na <= 0 \/ nb <= 0 THEN Zero
             ELSE [num |-> dot, sq |-> na * nb]

\* sim >= th for sim = num / sqrt(sq) and the rational th = p / q (q > 0)
SimGE(sim, th) ==
    LET l == sim.num * th.q
        r == th.p
    IN  IF r >= 0
        THEN l >= 0 /\ l * l >= r * r * sim.sq
        ELSE l >= 0 \/ l * l <= r * r * sim.sq

-----------------------------------------------------------------------------
(* services/embedder.py *)

Zeros(d) == [i \in 1..d |-> 0]

Alphabet == LOWER \o UPPER \o <<" ", "\t", "\n">>

Code(c) ==
    IF \E i \in 1..Len(Alphabet) : Alphabet[i] = c
    THEN CHOOSE i \in 1..Len(Alphabet) : Alphabet[i] = c
    ELSE 0

RECURSIVE CodeSum(_)
CodeSum(s) == IF s = <<>> THEN 0 ELSE Code(s[1]) + CodeSum(Tail(s))

\* Embedder._fallback_vector: out[i] is a digest of (text, i) scaled to
\* [0, 1); the digest is modelled by a fixed function of the text and i.
_fallback_vector(text, dim) ==
    [i \in 1..dim |-> (CodeSum(text) * (i + 1) + Len(text) + i) % 4]

\* _ensure_dim without the padding (a variant that lets a short vector
\* through)
_ensure_dim_truncating(vec, dim) ==
    IF Len(vec) > dim THEN SubSeq(vec, 1, dim) ELSE vec

\* Embedder._ensure_dim: truncate or pad with zeros
_ensure_dim(vec, dim) ==
    IF Len(vec) = dim THEN vec
    ELSE IF Len(vec) > dim THEN SubSeq(vec, 1, dim)
    ELSE vec \o Zeros(dim - Len(vec))

\* What the provider does when it is called: it answers with a vector of
\* any length, or the call raises.
Failure == [ok |-> FALSE, vec |-> <<>>]
ProviderVecs ==
    { <<1>>, <<3, 4>>, <<-3, 4, 1, 1>> }
ProviderOutcomes == {[ok |-> TRUE, vec |-> v] : v \in ProviderVecs} \cup {Failure}

\* Embedder.embed(text), with `resp` what the provider does if it is called.
\* Returns the vector and the embedder after the call.
embed(e, text0, resp) ==
    LET text == Strip(OrEmpty(text0)) IN
    IF text = <<>> THEN [vec |-> Zeros(Dim), emb |-> e]
    ELSE IF text \in DOMAIN e.cache THEN [vec |-> e.cache[text], emb |-> e]
    ELSE LET raw == IF ~e.client THEN _fallback_vector(text, Dim)
                    ELSE IF ~resp.ok THEN _fallback_vector(text, Dim)
                    ELSE resp.vec
             vec == _ensure_dim(raw, Dim)
         IN  [vec |-> vec,
              emb |-> [e EXCEPT !.cache = [t \in DOMAIN e.cache \cup {text} |->
                                              IF t = text THEN vec ELSE e.cache[t]],
                                !.calls = IF e.client THEN @ + 1 ELSE @]]

\* d[k] = v on a dict
Put(f, k, v) == [x \in DOMAIN f \cup {k} |-> IF x = k THEN v ELSE f[x]]

\* What embed_many and the provider do, as the call's caller can observe it:
\* a request sent with a batch, a sleep of ms milliseconds before the next
\* attempt, a batch given up after the third attempt, a write of the cache
Requested(batch, idx) ==
    [kind |-> "request", texts |-> batch, idx |-> idx, vec |-> <<>>, ms |-> 0]
Slept(batch, idx, ms) ==
    [kind |-> "sleep", texts |-> batch, idx |-> idx, vec |-> <<>>, ms |-> ms]
GaveUp(batch, idx) ==
    [kind |-> "fallback", texts |-> batch, idx |-> idx, vec |-> <<>>, ms |-> 0]
Wrote(s, v) ==
    [kind |-> "write", texts |-> <<s>>, idx |-> <<>>, vec |-> v, ms |-> 0]

\* embed_many, first loop with every non-blank uncached position queried
\* whatever it holds (a variant that sends blank texts to the provider)
RECURSIVE MapIdxAll(_, _, _)
MapIdxAll(e, texts, i) ==
    IF i > Len(texts) THEN <<>>
    ELSE (IF Strip(OrEmpty(texts[i])) \notin DOMAIN e.cache THEN <<i>> ELSE <<>>)
         \o MapIdxAll(e, texts, i + 1)

\* embed_many, first loop: map_idx, the positions whose stripped text is
\* neither blank nor cached when the call starts
RECURSIVE MapIdx(_, _, _)
MapIdx(e, texts, i) ==
    IF i > Len(texts) THEN <<>>
    ELSE LET s == Strip(OrEmpty(texts[i]))
         IN  (IF s # <<>> /\ s \notin DOMAIN e.cache THEN <<i>> ELSE <<>>)
             \o MapIdx(e, texts, i + 1)

\* embed_many, "place in results": for s, i, vec in zip(batch, idx, embs),
\* one triple after the other; st is [emb, res, events]
RECURSIVE Place(_, _, _, _)
Place(st, batch, idx, embs) ==
    IF batch = <<>> \/ idx = <<>> \/ embs = <<>> THEN st
    ELSE LET v == _ensure_dim(embs[1], Dim)
         IN  Place([emb    |-> [st.emb EXCEPT !.cache = Put(@, batch[1], v)],
                    res    |-> Put(st.res, idx[1], v),
                    events |-> Append(st.events, Wrote(batch[1], v))],
                   Tail(batch), Tail(idx), Tail(embs))

\* embed_many's retry loop going on as long as the provider fails (a
\* variant without the bound of three attempts)
AttemptedUnbounded(o) == o.fails + 1

\* What the provider does with one chunk: o.fails attempts raise before one
\* answers with the vectors o.embs; with three failed attempts the chunk is
\* given up.
Attempted(o) == IF o.fails + 1 < 3 THEN o.fails + 1 ELSE 3

\* sleep_for = 1.5 * (2 ** attempt), in milliseconds; attempt counts from 0
retry_sleep_ms(attempt) == 1500 * (2 ^ attempt)

\* embed_many's retry loop on one chunk, attempts a, a + 1, ... (counted
\* from 1): the request, and the sleep after a failed attempt that is not
\* the third
RECURSIVE Tries(_, _, _, _)
Tries(batch, idx, o, a) ==
    IF a > Attempted(o) THEN <<>>
    ELSE <<Requested(batch, idx)>>
         \o (IF a <= o.fails /\ a - 1 # 2
             THEN <<Slept(batch, idx, retry_sleep_ms(a - 1))>> ELSE <<>>)
         \o Tries(batch, idx, o, a + 1)

\* embed_many's retry loop with a given-up chunk left without vectors (a
\* variant that does not fall back)
ChunkEmbsNone(batch, o) ==
    IF o.fails >= 3 THEN <<>> ELSE o.embs

\* embed_many's retry loop: embs of one chunk
ChunkEmbs(batch, o) ==
    IF o.fails >= 3
    THEN [j \in 1..Len(batch) |-> _fallback_vector(batch[j], Dim)]
    ELSE o.embs

\* embed_many, the loop over the chunks of to_query; outs[1] is what the
\* provider does with the first chunk left
RECURSIVE Chunks(_, _, _, _, _)
Chunks(st, to_query, map_idx, chunk, outs) ==
    IF to_query = <<>> THEN st
    ELSE LET n     == IF chunk < Len(to_query) THEN chunk ELSE Len(to_query)
             batch == SubSeq(to_query, 1, n)
             idx   == SubSeq(map_idx, 1, n)
             o     == outs[1]
             asked == [emb    |-> [st.emb EXCEPT !.calls = @ + Attempted(o)],
                       res    |-> st.res,
                       events |-> st.events
                                  \o Tries(batch, idx, o, 1)
                                  \o (IF o.fails >= 3 THEN <<GaveUp(batch, idx)>> ELSE <<>>)]
         IN  Chunks(Place(asked, batch, idx, ChunkEmbs(batch, o)),
                    SubSeq(to_query, n + 1, Len(to_query)),
                    SubSeq(map_idx, n + 1, Len(map_idx)), chunk, Tail(outs))

\* Embedder.embed_many(texts) with batch size bs, outs what the provider
\* does with each chunk.  Returns the vectors, the embedder after the call
\* and what the call did.
embed_many(e, bs, texts, outs) ==
    IF texts = <<>> THEN [vecs |-> <<>>, emb |-> e, events |-> <<>>]
    ELSE LET S        == [i \in 1..Len(texts) |-> Strip(OrEmpty(texts[i]))]
             map_idx  == MapIdx(e, texts, 1)
             to_query == [j \in 1..Len(map_idx) |-> S[map_idx[j]]]
             st0      == [emb    |-> e,
                          res    |-> [i \in {k \in 1..Len(texts) :
                                               S[k] = <<>> \/ S[k] \in DOMAIN e.cache} |->
                                         IF S[i] = <<>> THEN Zeros(Dim) ELSE e.cache[S[i]]],
                          events |-> <<>>]
             st       == IF to_query = <<>> THEN st0
                         ELSE IF ~e.client
                         THEN Place(st0, to_query, map_idx,
                                    [j \in 1..Len(to_query) |->
                                        _fallback_vector(to_query[j], Dim)])
                         ELSE Chunks(st0, to_query, map_idx,
                                     IF bs > 1 THEN bs ELSE 1, outs)
         IN  [vecs   |-> [i \in 1..Len(texts) |->
                             IF i \in DOMAIN st.res THEN st.res[i] ELSE Zeros(Dim)],
              emb    |-> st.emb,
              events |-> st.events]

-----------------------------------------------------------------------------
(* services/relevance_filter.py *)

\* _title_desc
_title_desc(t) == [title |-> t.title, desc |-> t.description]

\* the haystack of is_relevant / explain / run_once
Hay(t) == Lower(OrEmpty(t.title) \o <<"\n">> \o OrEmpty(t.description))

\* the text that is_relevant / explain embed
RelText(t) == Strip(OrEmpty(t.title) \o <<" ">> \o OrEmpty(t.description))

\* `any(k in hay for k in kws)`
AnyIn(kws, hay) == \E i \in 1..Len(kws) : IsSubstr(kws[i], hay)

\* RelevanceFilter.__init__: kws = [k.strip().lower() for k in cfg.keywords
\*                                  if k and k.strip()]
RECURSIVE NormKeywords(_)
NormKeywords(ks) ==
    IF ks = <<>> THEN <<>>
    ELSE IF Strip(ks[1]) # <<>>
         THEN <<Lower(Strip(ks[1]))>> \o NormKeywords(Tail(ks))
         ELSE NormKeywords(Tail(ks))

RECURSIVE Join(_)
Join(ks) ==
    IF ks = <<>> THEN <<>>
    ELSE IF Len(ks) = 1 THEN ks[1]
    ELSE ks[1] \o <<" ">> \o Join(Tail(ks))

\* the built-in generic query text, used when no keyword is configured
GenericQuery == <<"r","f","t">>

QueryText(kws) == IF kws # <<>> THEN Join(kws) ELSE GenericQuery

\* sim > th, the strict comparison
SimGT(sim, th) ==
    LET l == sim.num * th.q
        r == th.p
    IN  IF r >= 0
        THEN l > 0 /\ l * l > r * r * sim.sq
        ELSE l >= 0 \/ l * l < r * r * sim.sq

\* is_relevant without the short-circuit: the similarity is always computed
is_relevant_eager(r, e, t, resp) ==
    LET hay == Hay(t)
        kw  == r.keywords # <<>> /\ AnyIn(r.keywords, hay)
        got == embed(e, RelText(t), resp)
        sim == cosine_similarity(r.query_vec, got.vec)
    IN  [result |-> (kw \/ SimGE(sim, r.threshold)), emb |-> got.emb, kw |-> kw]

\* is_relevant with an exclusive threshold
is_relevant_strict(r, e, t, resp) ==
    LET hay == Hay(t) IN
    IF r.keywords # <<>> /\ AnyIn(r.keywords, hay)
    THEN [result |-> TRUE, emb |-> e, kw |-> TRUE]
    ELSE LET got == embed(e, RelText(t), resp)
             sim == cosine_similarity(r.query_vec, got.vec)
         IN  [result |-> SimGT(sim, r.threshold), emb |-> got.emb, kw |-> FALSE]

\* RelevanceFilter.is_relevant
is_relevant(r, e, t, resp) ==
    LET hay == Hay(t) IN
    IF r.keywords # <<>> /\ AnyIn(r.keywords, hay)
    THEN [result |-> TRUE, emb |-> e, kw |-> TRUE]
    ELSE LET got == embed(e, RelText(t), resp)
             sim == cosine_similarity(r.query_vec, got.vec)
         IN  [result |-> SimGE(sim, r.threshold), emb |-> got.emb, kw |-> FALSE]

\* explain with a decision that forgets the keyword hit
explain_sim_only(r, e, t, resp) ==
    LET hay    == Hay(t)
        kw_hit == r.keywords # <<>> /\ AnyIn(r.keywords, hay)
        got    == embed(e, RelText(t), resp)
        sim    == cosine_similarity(r.query_vec, got.vec)
    IN  [kw_hit |-> kw_hit, similarity |-> sim, threshold |-> r.threshold,
         decision |-> SimGE(sim, r.threshold), emb |-> got.emb]

\* RelevanceFilter.explain
explain(r, e, t, resp) ==
    LET hay    == Hay(t)
        kw_hit == r.keywords # <<>> /\ AnyIn(r.keywords, hay)
        got    == embed(e, RelText(t), resp)
        sim    == cosine_similarity(r.query_vec, got.vec)
    IN  [kw_hit |-> kw_hit, similarity |-> sim, threshold |-> r.threshold,
         decision |-> (kw_hit \/ SimGE(sim, r.threshold)), emb |-> got.emb]

-----------------------------------------------------------------------------
(* The bot's embedder and filter as TenderBot.__init__ builds them *)

\* TenderBot.__init__ up to the filter: Embedder(cfg), RelevanceFilter(cfg, embedder)
NewEmbedder(client) == [client |-> client, cache |-> <<>>, calls |-> 0]

NewFilter(c, e, resp) ==
    LET kws == NormKeywords(c.keywords)
        got == embed(e, QueryText(kws), resp)
    IN  [rel |-> [keywords |-> kws, query_vec |-> got.vec,
                  threshold |-> c.similarity_threshold],
         emb |-> got.emb]

\* what is kept of a call once the next one is made
Brief(p) ==
    IF p.op = "none" THEN [op |-> "none"]
    ELSE [op |-> p.op, t |-> p.t, decision |-> p.decision, kw |-> p.kw]

NoProbe == [op |-> "none", n |-> 0, prev |-> [op |-> "none"]]

-----------------------------------------------------------------------------
(* utils/helpers.py: normalize_ws, canonicalize_url, row_hash *)

\* _WS_RE.sub(" ", s): every run of whitespace becomes one space
RECURSIVE CollapseWs(_)
CollapseWs(s) ==
    IF s = <<>> THEN <<>>
    ELSE IF s[1] \in WS THEN <<" ">> \o CollapseWs(LStrip(s))
    ELSE <<s[1]>> \o CollapseWs(Tail(s))

\* normalize_ws: collapse whitespace and trim; None -> ""
normalize_ws(s) == CollapseWs(Strip(OrEmpty(s)))

\* str.find for a set of characters: the first index >= i of s holding one
\* of them, 0 when there is none
RECURSIVE Find(_, _, _)
Find(s, cs, i) ==
    IF i > Len(s) THEN 0 ELSE IF s[i] \in cs THEN i ELSE Find(s, cs, i + 1)

\* s[i-1:] in Python's terms
From(s, i) == SubSeq(s, i, Len(s))

\* str.split(sep)
RECURSIVE Split(_, _)
Split(s, sep) ==
    LET i == Find(s, {sep}, 1)
    IN  IF i = 0 THEN <<s>>
        ELSE <<SubSeq(s, 1, i - 1)>> \o Split(From(s, i + 1), sep)

DIGITS == <<"0","1","2","3","4","5","6","7","8","9">>

\* the characters of the links of the model, in code point order.  Links
\* are free of whitespace and of ";", and the names and values of a query
\* are made of letters and digits, which urlencode leaves as they are.
UrlChars ==
    <<"#", "&", "-", ".", "/">> \o DIGITS \o <<":", "=", "?">> \o UPPER \o
    <<"[", "]">> \o LOWER

Ord(c) == CHOOSE i \in 1..Len(UrlChars) : UrlChars[i] = c

Letters == {UPPER[i] : i \in 1..Len(UPPER)} \cup {LOWER[i] : i \in 1..Len(LOWER)}

\* urllib.parse.scheme_chars
SchemeChars == Letters \cup {DIGITS[i] : i \in 1..Len(DIGITS)} \cup {"+", "-", "."}

\* urllib.parse.urlsplit, as urlparse uses it.  error: the ValueError raised
\* for a host with one square bracket and not the other
urlparse(url) ==
    LET c         == Find(url, {":"}, 1)
        hasScheme == /\ c > 1
                     /\ url[1] \in Letters
                     /\ \A k \in 1..(c - 1) : url[k] \in SchemeChars
        r1        == IF hasScheme THEN From(url, c + 1) ELSE url
        hasNet    == Len(r1) >= 2 /\ r1[1] = "/" /\ r1[2] = "/"
        d         == IF hasNet THEN Find(r1, {"/", "?", "#"}, 3) ELSE 0
        r2        == IF ~hasNet THEN r1 ELSE IF d = 0 THEN <<>> ELSE From(r1, d)
        h         == Find(r2, {"#"}, 1)
        r3        == IF h = 0 THEN r2 ELSE SubSeq(r2, 1, h - 1)
        q         == Find(r3, {"?"}, 1)
        netloc    == IF ~hasNet THEN <<>>
                     ELSE IF d = 0 THEN From(r1, 3) ELSE SubSeq(r1, 3, d - 1)
    IN  [error    |-> (Find(netloc, {"["}, 1) # 0) # (Find(netloc, {"]"}, 1) # 0),
         scheme   |-> IF hasScheme THEN Lower(SubSeq(url, 1, c - 1)) ELSE <<>>,
         netloc   |-> netloc,
         path     |-> IF q = 0 THEN r3 ELSE SubSeq(r3, 1, q - 1),
         query    |-> IF q = 0 THEN <<>> ELSE From(r3, q + 1),
         fragment |-> IF h = 0 THEN <<>> ELSE From(r2, h + 1)]

\* parse_qsl(query, keep_blank_values=True): the (name, value) pairs; an
\* empty piece is skipped, a piece without "=" has the value ""
parse_qsl(query) ==
    LET pieces == SelectSeq(Split(query, "&"), LAMBDA x : x # <<>>)
    IN  [j \in 1..Len(pieces) |->
            LET e == Find(pieces[j], {"="}, 1)
            IN  IF e = 0 THEN [k |-> pieces[j], v |-> <<>>]
                ELSE [k |-> SubSeq(pieces[j], 1, e - 1), v |-> From(pieces[j], e + 1)]]

\* Python's < on str: lexicographic by code point
RECURSIVE StrLess(_, _)
StrLess(a, b) ==
    IF b = <<>> THEN FALSE
    ELSE IF a = <<>> THEN TRUE
    ELSE IF a[1] = b[1] THEN StrLess(Tail(a), Tail(b))
    ELSE Ord(a[1]) < Ord(b[1])

\* Python's < on (name, value) tuples
PairLess(x, y) == StrLess(x.k, y.k) \/ (x.k = y.k /\ StrLess(x.v, y.v))

RECURSIVE InsertPair(_, _)
InsertPair(x, s) ==
    IF s = <<>> THEN <<x>>
    ELSE IF PairLess(s[1], x) THEN <<s[1]>> \o InsertPair(x, Tail(s))
    ELSE <<x>> \o s

\* sorted(pairs)
RECURSIVE sorted(_)
sorted(s) == IF s = <<>> THEN <<>> ELSE InsertPair(s[1], sorted(Tail(s)))

\* urlencode(pairs): name=value joined by "&"
RECURSIVE urlencode(_)
urlencode(pairs) ==
    IF pairs = <<>> THEN <<>>
    ELSE pairs[1].k \o <<"=">> \o pairs[1].v \o
         (IF Len(pairs) > 1 THEN <<"&">> \o urlencode(Tail(pairs)) ELSE <<>>)

\* urllib.parse.uses_netloc, the schemes of it that the portals use
UsesNetloc == { <<"h","t","t","p">>, <<"h","t","t","p","s">>, <<"f","t","p">> }

\* urlunparse((scheme, netloc, path, "", query, ""))
urlunparse(scheme, netloc, path, query) ==
    LET u1 == IF netloc # <<>>
                 \/ (scheme \in UsesNetloc
                     /\ ~(Len(path) >= 2 /\ path[1] = "/" /\ path[2] = "/"))
              THEN <<"/", "/">> \o netloc \o
                   (IF path # <<>> /\ path[1] # "/" THEN <<"/">> \o path ELSE path)
              ELSE path
        u2 == IF scheme # <<>> THEN scheme \o <<":">> \o u1 ELSE u1
    IN  IF query # <<>> THEN u2 \o <<"?">> \o query ELSE u2

\* canonicalize_url with the query's parameters left in the order they
\* come in (a variant the stability of the fingerprint rules out)
canonicalize_url_unsorted(u) ==
    IF u = None \/ u = <<>> THEN <<>>
    ELSE LET p == urlparse(u)
         IN  IF p.error THEN Strip(u)
             ELSE urlunparse(Lower(p.scheme), Lower(p.netloc), p.path,
                             urlencode(parse_qsl(p.query)))

\* canonicalize_url: scheme and host lower-cased, the query's parameters
\* sorted, the fragment dropped, the path kept as it is; a link that does
\* not parse is returned as it is, stripped
canonicalize_url(u) ==
    IF u = None \/ u = <<>> THEN <<>>
    ELSE LET p == urlparse(u)
         IN  IF p.error THEN Strip(u)
             ELSE urlunparse(Lower(p.scheme), Lower(p.netloc), p.path,
                             urlencode(sorted(parse_qsl(p.query))))

\* row_hash: the digest of the five normalised pieces joined by "|".  The
\* digest is taken to be collision free, so the joined key stands for it.
row_hash(row) ==
    normalize_ws(row.source_portal) \o <<"|">> \o
    normalize_ws(row.source_id)     \o <<"|">> \o
    normalize_ws(row.title)         \o <<"|">> \o
    normalize_ws(row.buyer)         \o <<"|">> \o
    canonicalize_url(row.link)

-----------------------------------------------------------------------------
(* scrapers/base_scraper.py: Tender;  tenderbot.py: ensure_tender, to_db_row *)

\* Python's `a or b` on Optional[str]
PyOr(a, b) == IF a = None \/ a = <<>> THEN b ELSE a

\* Tender(...) with __post_init__: source_id falls back to atm_id
Tender(portal, source_id, atm_id, title, description, buyer, link) ==
    [kind |-> "Tender", source_portal |-> portal,
     source_id |-> IF (source_id = None \/ source_id = <<>>)
                      /\ atm_id # None /\ atm_id # <<>>
                   THEN atm_id ELSE source_id,
     atm_id |-> atm_id, title |-> title, description |-> description,
     buyer |-> buyer, link |-> link]

\* a dict as a scraper may return it
Dict(portal, source_id, atm_id, title, description) ==
    [kind |-> "dict", source_portal |-> portal, source_id |-> source_id,
     atm_id |-> atm_id, title |-> title, description |-> description,
     buyer |-> None, link |-> None]

\* ensure_tender, for a Tender or a dict (anything else raises TypeError)
ensure_tender(obj) ==
    IF obj.kind = "Tender" THEN obj
    ELSE Tender(PyOr(obj.source_portal, <<"u","n","k","n","o","w","n">>),
                PyOr(obj.source_id, obj.atm_id), None,
                obj.title, obj.description, obj.buyer, obj.link)

\* to_db_row: Tender.to_row() plus the defaults and the tender_hash
to_db_row(t) ==
    [source_portal |-> t.source_portal, source_id |-> t.source_id,
     atm_id |-> t.atm_id, title |-> t.title, description |-> t.description,
     buyer |-> t.buyer, link |-> t.link,
     tender_hash |-> row_hash(t), embedding |-> <<>>]

-----------------------------------------------------------------------------
(* services/db.py and the tenders table *)

\* _normalize_row: coerced and cut down to the allowed columns (of which
\* the model keeps those the store and the driver read)
_normalize_row(r) ==
    [source_portal |-> r.source_portal, source_id |-> r.source_id,
     title |-> r.title, description |-> r.description,
     tender_hash |-> r.tender_hash, embedding |-> r.embedding]

\* a row as the table holds it; notified_at is no column of the payload
Stored(nr, notified) ==
    [source_portal |-> nr.source_portal, source_id |-> nr.source_id,
     title |-> nr.title, description |-> nr.description,
     tender_hash |-> nr.tender_hash, embedding |-> nr.embedding,
     notified_at |-> notified]

HasSourceId(r) == r.source_id # None /\ r.source_id # <<>>

\* The identity of a row for the batch upsert procedure: the pair
\* (source_portal, source_id) when there is a source_id, else the tender_hash.
Ident(r) ==
    IF HasSourceId(r) THEN <<"id", r.source_portal, r.source_id>>
    ELSE <<"hash", r.tender_hash, <<>>>>

Idents(rows) == {Ident(rows[i]) : i \in 1..Len(rows)}

\* The stored procedure upsert_tenders_batch: inserts the rows whose identity
\* is not stored yet (nor earlier in the payload), skips the others, and
\* returns the inserted rows.  Result: [table, returned].
RECURSIVE RpcUpsert(_, _, _)
RpcUpsert(table, norm, i) ==
    IF i > Len(norm) THEN [table |-> table, returned |-> <<>>]
    ELSE IF Ident(norm[i]) \in Idents(table)
         THEN RpcUpsert(table, norm, i + 1)
         ELSE LET rest == RpcUpsert(Append(table, Stored(norm[i], FALSE)), norm, i + 1)
              IN  [table |-> rest.table, returned |-> <<norm[i]>> \o rest.returned]

\* The conflict target of the table upsert: a NULL source_id never conflicts
Conflicts(a, b) ==
    /\ a.source_id # None /\ b.source_id # None
    /\ a.source_portal = b.source_portal /\ a.source_id = b.source_id

\* two rows of one payload hit the same conflict target: the statement fails
\* ("ON CONFLICT DO UPDATE command cannot affect row a second time")
SelfConflict(norm) ==
    \E i, j \in 1..Len(norm) : i < j /\ Conflicts(norm[i], norm[j])

\* a variant in which notified_at is a column of the payload, so that the
\* merge resets it
RECURSIVE TableUpsertResetting(_, _, _)
TableUpsertResetting(table, norm, i) ==
    IF i > Len(norm) THEN [table |-> table, returned |-> <<>>]
    ELSE LET nr   == norm[i]
             hit  == \E k \in 1..Len(table) : Conflicts(table[k], nr)
             next == IF hit
                     THEN [k \in 1..Len(table) |->
                             IF Conflicts(table[k], nr)
                             THEN Stored(nr, FALSE) ELSE table[k]]
                     ELSE Append(table, Stored(nr, FALSE))
             rest == TableUpsertResetting(next, norm, i + 1)
         IN  [table |-> rest.table, returned |-> <<nr>> \o rest.returned]

\* table.upsert(norm, on_conflict="source_portal,source_id",
\*              returning="representation"): duplicates are merged, that is,
\* a stored row with the same (source_portal, source_id) gets the payload's
\* columns (notified_at is kept), any other row is inserted, and the
\* representation of every row of the payload comes back.
RECURSIVE TableUpsert(_, _, _)
TableUpsert(table, norm, i) ==
    IF i > Len(norm) THEN [table |-> table, returned |-> <<>>]
    ELSE LET nr   == norm[i]
             hit  == \E k \in 1..Len(table) : Conflicts(table[k], nr)
             next == IF hit
                     THEN [k \in 1..Len(table) |->
                             IF Conflicts(table[k], nr)
                             THEN Stored(nr, table[k].notified_at) ELSE table[k]]
                     ELSE Append(table, Stored(nr, FALSE))
             rest == TableUpsert(next, norm, i + 1)
         IN  [table |-> rest.table, returned |-> <<nr>> \o rest.returned]

\* .update({"embedding": vec}).eq("tender_hash", h)
UpdateEmbedding(table, h, vec) ==
    [k \in 1..Len(table) |->
        IF table[k].tender_hash = h THEN [table[k] EXCEPT !.embedding = vec]
        ELSE table[k]]

\* .update({"notified_at": "now()"}).eq("tender_hash", h)
SetNotifiedAt(table, h) ==
    [k \in 1..Len(table) |->
        IF table[k].tender_hash = h THEN [table[k] EXCEPT !.notified_at = TRUE]
        ELSE table[k]]

\* mark_notified(hashes): .update({"notified_at": now}).in_("tender_hash", hs)
MarkNotified(table, hs) ==
    [k \in 1..Len(table) |->
        IF table[k].tender_hash \in hs /\ table[k].tender_hash # <<>>
        THEN [table[k] EXCEPT !.notified_at = TRUE]
        ELSE table[k]]

-----------------------------------------------------------------------------
(* tenderbot.py: the bot, _run_with_retries and run_once *)

\* self.scrapers, as SCRAPERS_TO_RUN configures it
Scrapers ==
    << [name |-> "austender", portal |-> <<"a","u","s","t","e","n","d","e","r">>],
       [name |-> "qtenders",  portal |-> <<"q","t","e","n","d","e","r","s">>] >>

SourceIdx == 1..Len(Scrapers)

\* what a portal may list
Catalogue(k) ==
    IF Scrapers[k].name = "austender"
    THEN { Tender(Scrapers[k].portal, <<"A","1">>, None,
                  <<"I","T"," ","o","p","s">>, None, None, None),
           Tender(Scrapers[k].portal, <<"B","2">>, None,
                  <<"r","o","a","d">>, <<"f","i","x">>, None, None) }
    ELSE { Dict(Scrapers[k].portal, None, None,
                <<"I","T"," ","h","u","b">>, None),
           Tender(Scrapers[k].portal, <<"P","3">>, None,
                  <<"p","a","r","k">>, None, None, None) }

RECURSIVE SeqsUpTo(_, _)
SeqsUpTo(S, n) ==
    IF n = 0 THEN {<<>>}
    ELSE LET shorter == SeqsUpTo(S, n - 1)
         IN  shorter \cup {Append(q, x) : q \in shorter, x \in S}

Feeds(k) == SeqsUpTo(Catalogue(k), MaxFeed)

\* The provider the pipeline talks to: when it answers, its answer is a
\* function of the text (here of the text's first letter); it may also fail.
ProviderAnswer(text) ==
    [ok |-> TRUE,
     vec |-> IF text[1] \in {"r"} THEN <<3, 4>>
             ELSE IF text[1] \in {"p"} THEN <<-3, 4, 1, 1>>
             ELSE <<1>>]

\* the table before the bot starts: empty, or holding the tender A1 of
\* austender as an earlier scrape saw it (another title), embedded and notified
OldA1 ==
    Stored(_normalize_row(to_db_row(
               Tender(Scrapers[1].portal, <<"A","1">>, None,
                      <<"I","T"," ","o","l","d">>, None, None, None))), TRUE)

InitialStores == { <<>>, << [OldA1 EXCEPT !.embedding = Zeros(Dim)] >> }

\* may one more call of the provider, of a store update or of a sink fail
MayFail(ok) == ok \/ faults < MaxFaults

Faulted(ok) == IF ok THEN faults ELSE faults + 1

\* a variant that reads cfg.retry_attempts as the total number of tries
AttemptsAsTotal == IF cfg.retry_attempts > 1 THEN cfg.retry_attempts ELSE 1

\* attempts = 1 + max(0, cfg.retry_attempts)
Attempts == 1 + (IF cfg.retry_attempts > 0 THEN cfg.retry_attempts ELSE 0)

IdleRun ==
    [pc |-> "idle", n |-> 0, si |-> 0, i |-> 0, tenders |-> <<>>, ti |-> 0,
     all_rows |-> <<>>, total_found |-> 0, skipped_kw |-> 0, skipped_sim |-> 0,
     inserted_rows |-> <<>>, ri |-> 0, step |-> "none", vec |-> <<>>]

NoObs ==
    [pre |-> <<>>, attempts |-> 0, sleeps |-> 0,
     fetched |-> [k \in SourceIdx |-> [ok |-> FALSE, items |-> <<>>]],
     path |-> "none", submitted |-> <<>>, returned |-> <<>>,
     effects |-> <<>>, summaries |-> <<>>, raised |-> FALSE]

\* what is kept of a run once the next one starts
Past(o) ==
    [pre |-> o.pre, fetched |-> o.fetched, submitted |-> o.submitted,
     returned |-> o.returned]

Init ==
    \E ks \in {<< <<"e","r","p">>, <<"i","t">> >>},
       th \in {[p |-> 3, q |-> 5]},
       ra \in (0 - 1)..MaxRetry,
       ok \in BOOLEAN :
        /\ cfg = [keywords |-> ks, similarity_threshold |-> th, retry_attempts |-> ra]
        /\ LET q == QueryText(NormKeywords(ks))
               f == NewFilter(cfg, NewEmbedder(TRUE),
                              IF ok THEN ProviderAnswer(q) ELSE Failure)
           IN  rel = f.rel /\ emb = f.emb
        /\ faults = (IF ok THEN 0 ELSE 1)
        /\ probe = NoProbe
        /\ feed \in [SourceIdx -> UNION {Feeds(k) : k \in SourceIdx}]
        /\ \A k \in SourceIdx : feed[k] \in Feeds(k)
        /\ store \in InitialStores
        /\ run = IdleRun
        /\ obs = NoObs
        /\ hist = Past(NoObs)

\* _loop: the next call of run_once
StartRun ==
    /\ run.pc = "idle"
    /\ run.n < MaxRuns
    /\ run' = [IdleRun EXCEPT !.pc = "attempt", !.n = run.n + 1, !.si = 1, !.i = 1]
    /\ obs' = [NoObs EXCEPT !.pre = store]
    /\ hist' = Past(obs)
    /\ UNCHANGED <<cfg, emb, rel, probe, feed, store, faults>>

\* _run_with_retries, try i: fetch returned in time and every item coerced
FetchOk ==
    /\ run.pc = "attempt"
    /\ LET got == [j \in 1..Len(feed[run.si]) |-> ensure_tender(feed[run.si][j])]
       IN  /\ run' = [run EXCEPT !.pc = "filter", !.tenders = got, !.ti = 1,
                                 !.total_found = @ + Len(got)]
           /\ obs' = [obs EXCEPT !.attempts = @ + 1,
                                 !.fetched[run.si] = [ok |-> TRUE, items |-> got]]
    /\ UNCHANGED <<cfg, emb, rel, probe, feed, store, hist, faults>>

\* a variant that gives up the run once a source has used up its tries
AfterFailedTryAborting ==
    /\ run' = IF run.i < Attempts
              THEN [run EXCEPT !.pc = "sleep"]
              ELSE [run EXCEPT !.pc = "raised"]
    /\ obs' = [obs EXCEPT !.attempts = @ + 1, !.raised = (run.i >= Attempts)]
    /\ UNCHANGED <<cfg, emb, rel, probe, feed, store, hist, faults>>

\* what follows a failed try i: the backoff sleep when tries are left, else
\* "exhausted retries", return []
AfterFailedTry ==
    /\ run' = IF run.i < Attempts
              THEN [run EXCEPT !.pc = "sleep"]
              ELSE [run EXCEPT !.pc = "filter", !.tenders = <<>>, !.ti = 1]
    /\ obs' = [obs EXCEPT !.attempts = @ + 1]
    /\ UNCHANGED <<cfg, emb, rel, probe, feed, store, hist, faults>>

\* try i: asyncio.wait_for raised TimeoutError
FetchTimeout == run.pc = "attempt" /\ AfterFailedTry

\* try i: fetch raised an exception
FetchError == run.pc = "attempt" /\ AfterFailedTry

\* a variant that coerces the items outside the try block, so that the
\* TypeError leaves _run_with_retries
FetchBadItemRaises ==
    /\ run.pc = "attempt"
    /\ run' = [run EXCEPT !.pc = "raised"]
    /\ obs' = [obs EXCEPT !.attempts = @ + 1, !.raised = TRUE]
    /\ UNCHANGED <<cfg, emb, rel, probe, feed, store, hist, faults>>

\* try i: fetch returned an item that ensure_tender rejects (TypeError)
FetchBadItem == run.pc = "attempt" /\ AfterFailedTry

\* the backoff sleep between two tries
Sleep ==
    /\ run.pc = "sleep"
    /\ run' = [run EXCEPT !.pc = "attempt", !.i = @ + 1]
    /\ obs' = [obs EXCEPT !.sleeps = @ + 1]
    /\ UNCHANGED <<cfg, emb, rel, probe, feed, store, hist, faults>>

\* what the provider may do when embed(text) is called: nothing it does
\* matters unless the call reaches it
Outcomes(e, text) ==
    IF e.client /\ Strip(text) # <<>> /\ Strip(text) \notin DOMAIN e.cache
    THEN {ProviderAnswer(Strip(text))} \cup (IF faults < MaxFaults THEN {Failure} ELSE {})
    ELSE {ProviderAnswer(<<"x">>)}

\* a variant in which the quick keyword check decides: a tender without a
\* keyword hit is skipped and the relevance filter is not asked
FilterOneByKeyword ==
    /\ run.pc = "filter"
    /\ run.ti <= Len(run.tenders)
    /\ LET t      == run.tenders[run.ti]
           kw_hit == AnyIn(cfg.keywords, Hay(t))
       IN  run' = IF kw_hit
                  THEN [run EXCEPT !.ti = @ + 1,
                                   !.all_rows = Append(@, to_db_row(t))]
                  ELSE [run EXCEPT !.ti = @ + 1, !.skipped_kw = @ + 1]
    /\ UNCHANGED <<cfg, emb, rel, probe, feed, store, obs, hist, faults>>

\* a variant that attributes a rejection to the stage that made it: a
\* rejected record, having no keyword hit, is counted as skipped on similarity
FilterOneCountingStage ==
    /\ run.pc = "filter"
    /\ run.ti <= Len(run.tenders)
    /\ \E resp \in Outcomes(emb, RelText(run.tenders[run.ti])) :
        LET t      == run.tenders[run.ti]
            out    == is_relevant(rel, emb, t, resp)
        IN  /\ emb' = out.emb
            /\ faults' = Faulted(resp.ok)
            /\ run' = IF out.result
                      THEN [run EXCEPT !.ti = @ + 1,
                                       !.all_rows = Append(@, to_db_row(t))]
                      ELSE [run EXCEPT !.ti = @ + 1, !.skipped_sim = @ + 1]
    /\ UNCHANGED <<cfg, rel, probe, feed, store, obs, hist>>

\* run_once, step 1: the relevance test of one fetched tender
FilterOne ==
    /\ run.pc = "filter"
    /\ run.ti <= Len(run.tenders)
    /\ \E resp \in Outcomes(emb, RelText(run.tenders[run.ti])) :
        LET t      == run.tenders[run.ti]
            kw_hit == AnyIn(cfg.keywords, Hay(t))
            out    == is_relevant(rel, emb, t, resp)
        IN  /\ emb' = out.emb
            /\ faults' = Faulted(resp.ok)
            /\ run' = IF out.result
                      THEN [run EXCEPT !.ti = @ + 1,
                                       !.all_rows = Append(@, to_db_row(t))]
                      ELSE IF ~kw_hit
                      THEN [run EXCEPT !.ti = @ + 1, !.skipped_kw = @ + 1]
                      ELSE [run EXCEPT !.ti = @ + 1, !.skipped_sim = @ + 1]
    /\ UNCHANGED <<cfg, rel, probe, feed, store, obs, hist>>

\* run_once, step 1: on to the next scraper, or out of the loop
NextSource ==
    /\ run.pc = "filter"
    /\ run.ti > Len(run.tenders)
    /\ run' = IF run.si < Len(Scrapers)
              THEN [run EXCEPT !.pc = "attempt", !.si = @ + 1, !.i = 1,
                               !.tenders = <<>>, !.ti = 0]
              ELSE [run EXCEPT !.pc = "scraped", !.tenders = <<>>, !.ti = 0]
    /\ obs' = [obs EXCEPT !.attempts = 0, !.sleeps = 0]
    /\ UNCHANGED <<cfg, emb, rel, probe, feed, store, hist, faults>>

Summary(upserted) ==
    [found |-> run.total_found, upserted |-> upserted,
     skipped_kw |-> run.skipped_kw, skipped_sim |-> run.skipped_sim]

\* run_once: nothing relevant, "Run complete ... Upserted: 0", return
SummaryEmpty ==
    /\ run.pc = "scraped"
    /\ run.all_rows = <<>>
    /\ run' = [run EXCEPT !.pc = "idle"]
    /\ obs' = [obs EXCEPT !.summaries = Append(@, Summary(0))]
    /\ UNCHANGED <<cfg, emb, rel, probe, feed, store, hist, faults>>

Norm(rows) == [j \in 1..Len(rows) |-> _normalize_row(rows[j])]

\* run_once, step 3: the rows of the batch whose hash the store returned
InsertedRows(all_rows, returned) ==
    LET inserted_hashes ==
            {returned[j].tender_hash : j \in {j \in 1..Len(returned) :
                                              returned[j].tender_hash # <<>>}}
    IN  SelectSeq(all_rows, LAMBDA r : r.tender_hash \in inserted_hashes)

AfterUpsert(res, path) ==
    LET rows == InsertedRows(run.all_rows, res.returned) IN
    /\ store' = res.table
    /\ run' = IF rows = <<>>
              THEN [run EXCEPT !.pc = "summary", !.inserted_rows = rows]
              ELSE [run EXCEPT !.pc = "post", !.inserted_rows = rows,
                               !.ri = 1, !.step = "embed"]
    /\ obs' = [obs EXCEPT !.path = path, !.submitted = Norm(run.all_rows),
                          !.returned = res.returned]
    /\ UNCHANGED <<cfg, emb, rel, probe, feed, hist, faults>>

\* upsert_tenders_return_inserted: the RPC answers
UpsertRpc ==
    /\ run.pc = "scraped"
    /\ run.all_rows # <<>>
    /\ AfterUpsert(RpcUpsert(store, Norm(run.all_rows), 1), "rpc")

\* upsert_tenders_return_inserted: the RPC fails, the table upsert answers
UpsertFallback ==
    /\ run.pc = "scraped"
    /\ run.all_rows # <<>>
    /\ ~SelfConflict(Norm(run.all_rows))
    /\ AfterUpsert(TableUpsert(store, Norm(run.all_rows), 1), "fallback")

\* a variant in which the failure of both upserts is swallowed and the run
\* goes on with the whole batch taken as inserted
UpsertFailureSwallowed ==
    /\ run.pc = "scraped"
    /\ run.all_rows # <<>>
    /\ run' = [run EXCEPT !.pc = "post", !.inserted_rows = run.all_rows,
                          !.ri = 1, !.step = "embed"]
    /\ obs' = [obs EXCEPT !.path = "failed", !.submitted = Norm(run.all_rows)]
    /\ UNCHANGED <<cfg, emb, rel, probe, feed, store, hist, faults>>

\* upsert_tenders_return_inserted: the RPC fails and the table upsert fails
\* too; the exception leaves run_once
UpsertRaises ==
    /\ run.pc = "scraped"
    /\ run.all_rows # <<>>
    /\ run' = [run EXCEPT !.pc = "raised"]
    /\ obs' = [obs EXCEPT !.path = "failed", !.submitted = Norm(run.all_rows),
                          !.raised = TRUE]
    /\ UNCHANGED <<cfg, emb, rel, probe, feed, store, hist, faults>>

\* Python's f"{x}" for an Optional[str]
FStr(x) == IF x = None THEN <<"N","o","n","e">> ELSE x

Cur == run.inserted_rows[run.ri]

Effect(kind, ok) == [kind |-> kind, idx |-> run.ri, ok |-> ok]


\* step 3: vec = self.embedder.embed(text)
EmbedStep ==
    /\ run.pc = "post" /\ run.step = "embed"
    /\ LET text == Strip(FStr(Cur.title) \o <<" ">> \o FStr(Cur.description)) IN
       \E resp \in Outcomes(emb, text) :
        LET got == embed(emb, text, resp) IN
        /\ emb' = got.emb
        /\ faults' = Faulted(resp.ok)
        /\ run' = [run EXCEPT !.vec = got.vec,
                              !.step = IF got.vec # <<>> THEN "persist" ELSE "notify"]
        /\ obs' = [obs EXCEPT !.effects = Append(@, Effect("embed", resp.ok))]
    /\ UNCHANGED <<cfg, rel, probe, feed, store, hist>>

\* a variant that marks the record as notified right after the embedding
\* is persisted, before the notification is sent
PersistStepThenMark ==
    /\ run.pc = "post" /\ run.step = "persist"
    /\ \E ok \in BOOLEAN :
        /\ MayFail(ok)
        /\ store' = IF ok THEN UpdateEmbedding(store, Cur.tender_hash, run.vec)
                    ELSE store
        /\ faults' = Faulted(ok)
        /\ obs' = [obs EXCEPT !.effects = Append(@, Effect("update_embedding", ok))]
    /\ run' = [run EXCEPT !.step = "mark", !.vec = <<>>]
    /\ UNCHANGED <<cfg, emb, rel, probe, feed, hist>>

\* step 3: self.db.update_embedding(r, vec); a failure is logged
PersistStep ==
    /\ run.pc = "post" /\ run.step = "persist"
    /\ \E ok \in BOOLEAN :
        /\ MayFail(ok)
        /\ store' = IF ok THEN UpdateEmbedding(store, Cur.tender_hash, run.vec)
                    ELSE store
        /\ faults' = Faulted(ok)
        /\ obs' = [obs EXCEPT !.effects = Append(@, Effect("update_embedding", ok))]
    /\ run' = [run EXCEPT !.step = "notify", !.vec = <<>>]
    /\ UNCHANGED <<cfg, emb, rel, probe, feed, hist>>

\* a variant in which a failed delivery is not caught and ends the run
NotifyStepAborting ==
    /\ run.pc = "post" /\ run.step = "notify"
    /\ \E ok \in BOOLEAN :
        /\ MayFail(ok)
        /\ faults' = Faulted(ok)
        /\ obs' = [obs EXCEPT !.effects = Append(@, Effect("notify", ok)),
                              !.raised = ~ok]
        /\ run' = IF ok THEN [run EXCEPT !.step = "mark", !.vec = <<>>]
                  ELSE [run EXCEPT !.pc = "raised"]
    /\ UNCHANGED <<cfg, emb, rel, probe, feed, store, hist>>

\* step 3: self.notifier.notify_tender(r); a failed delivery is logged
NotifyStep ==
    /\ run.pc = "post" /\ run.step = "notify"
    /\ \E ok \in BOOLEAN :
        /\ MayFail(ok)
        /\ faults' = Faulted(ok)
        /\ obs' = [obs EXCEPT !.effects = Append(@, Effect("notify", ok))]
    /\ run' = [run EXCEPT !.step = "mark", !.vec = <<>>]
    /\ UNCHANGED <<cfg, emb, rel, probe, feed, store, hist>>

\* step 3: self.db.set_notified_at(r["tender_hash"]); a failure is logged
MarkStep ==
    /\ run.pc = "post" /\ run.step = "mark"
    /\ \E ok \in BOOLEAN :
        /\ MayFail(ok)
        /\ store' = IF ok THEN SetNotifiedAt(store, Cur.tender_hash) ELSE store
        /\ faults' = Faulted(ok)
        /\ obs' = [obs EXCEPT !.effects = Append(@, Effect("set_notified_at", ok))]
    /\ run' = [run EXCEPT !.step = "crm"]
    /\ UNCHANGED <<cfg, emb, rel, probe, feed, hist>>

\* step 3: self.crm.push(r); a failed push is logged; then the next row
CrmStep ==
    /\ run.pc = "post" /\ run.step = "crm"
    /\ \E ok \in BOOLEAN :
        /\ MayFail(ok)
        /\ faults' = Faulted(ok)
        /\ obs' = [obs EXCEPT !.effects = Append(@, Effect("crm", ok))]
    /\ run' = IF run.ri < Len(run.inserted_rows)
              THEN [run EXCEPT !.ri = @ + 1, !.step = "embed"]
              ELSE [run EXCEPT !.pc = "summary", !.step = "none"]
    /\ UNCHANGED <<cfg, emb, rel, probe, feed, store, hist>>

\* run_once: "Run complete ... Upserted: len(inserted_rows)"
SummaryRun ==
    /\ run.pc = "summary"
    /\ run' = [run EXCEPT !.pc = "idle"]
    /\ obs' = [obs EXCEPT !.summaries = Append(@, Summary(Len(run.inserted_rows)))]
    /\ UNCHANGED <<cfg, emb, rel, probe, feed, store, hist, faults>>

Next ==
    \/ StartRun
    \/ FetchOk \/ FetchTimeout \/ FetchError \/ FetchBadItem \/ Sleep
    \/ FilterOne \/ NextSource
    \/ SummaryEmpty \/ UpsertRpc \/ UpsertFallback \/ UpsertRaises
    \/ EmbedStep \/ PersistStep \/ NotifyStep \/ MarkStep \/ CrmStep
    \/ SummaryRun

Spec == Init /\ [][Next]_vars

\* run_once up to the end of its loop over the scrapers: the retry
\* orchestrator and the relevance filter, without the store and the sinks
NextSources ==
    \/ StartRun
    \/ FetchOk \/ FetchTimeout \/ FetchError \/ FetchBadItem \/ Sleep
    \/ FilterOne \/ NextSource

SpecSources == Init /\ [][NextSources]_vars

-----------------------------------------------------------------------------
(* The relevance filter on its own: configurations, records and calls *)

\* cfg.keywords: none, one keyword, two keywords, and a list as a caller
\* may hand it over before normalisation (padded, upper case, blank entry)
KeywordChoices ==
    { <<>>,
      << <<"e","r","p">>, <<"i","t">> >>,
      << <<" ","I","T","\t">>, <<" ">>, <<>> >> }

\* cfg.similarity_threshold as a rational p / q
Thresholds == { [p |-> 0, q |-> 1], [p |-> 3, q |-> 5], [p |-> 1, q |-> 1] }

Rec(title, description) == [title |-> title, description |-> description]

RelRecords ==
    { Rec(<<"I","T"," ","o","p","s">>, None),        \* keyword in the title
      Rec(<<"r","o","a","d">>, <<"f","i","x">>),     \* no keyword
      Rec(<<" ","r","o","a","d">>, <<"f","i","x","\n">>),  \* same text, padded
      Rec(<<"i">>, <<"t">>),                         \* keyword across the fields
      Rec(None, None) }                              \* blank text

InitRel ==
    \E ks \in KeywordChoices, th \in Thresholds, client \in BOOLEAN,
       resp \in ProviderOutcomes :
        /\ client \/ resp = Failure
        /\ cfg = [keywords |-> ks, similarity_threshold |-> th, retry_attempts |-> 1]
        /\ LET f == NewFilter(cfg, NewEmbedder(client), resp)
           IN  rel = f.rel /\ emb = f.emb
        /\ probe = NoProbe
        /\ feed = [k \in SourceIdx |-> <<>>]
        /\ store = <<>>
        /\ run = IdleRun
        /\ obs = NoObs
        /\ hist = Past(NoObs)
        /\ faults = 0

\* what the provider may do during a call on record t: any of its outcomes
\* when embed(text) would reach it, and nothing that matters otherwise
\* (no client, blank text, or a text that is cached)
RelOutcomes(t) ==
    IF emb.client /\ Strip(RelText(t)) # <<>> /\ Strip(RelText(t)) \notin DOMAIN emb.cache
    THEN ProviderOutcomes ELSE {Failure}

\* a call of is_relevant(t)
IsRelevantCall ==
    \E t \in RelRecords :
      \E resp \in RelOutcomes(t) :
        /\ probe.n < MaxProbes
        /\ LET out == is_relevant(rel, emb, t, resp)
           IN  /\ emb' = out.emb
               /\ probe' = [op |-> "is_relevant", n |-> probe.n + 1, t |-> t,
                             before |-> emb, after |-> out.emb,
                             decision |-> out.result, kw |-> out.kw,
                             prev |-> Brief(probe)]
        /\ UNCHANGED <<cfg, rel, feed, store, run, obs, hist, faults>>

\* a call of explain(t)
ExplainCall ==
    \E t \in RelRecords :
      \E resp \in RelOutcomes(t) :
        /\ probe.n < MaxProbes
        /\ LET out == explain(rel, emb, t, resp)
           IN  /\ emb' = out.emb
               /\ probe' = [op |-> "explain", n |-> probe.n + 1, t |-> t,
                             before |-> emb, after |-> out.emb,
                             decision |-> out.decision, kw |-> out.kw_hit,
                             prev |-> Brief(probe)]
        /\ UNCHANGED <<cfg, rel, feed, store, run, obs, hist, faults>>

NextRel == IsRelevantCall \/ ExplainCall

SpecRel == InitRel /\ [][NextRel]_vars

-----------------------------------------------------------------------------
(* Properties of the relevance filter (checked under SpecRel) *)

\* A configured keyword is an entry of cfg.keywords as the filter keeps it:
\* stripped and lower-cased, blank entries dropped.
ConfiguredKeywordIn(hay) ==
    \E i \in 1..Len(cfg.keywords) :
        /\ Strip(cfg.keywords[i]) # <<>>
        /\ IsSubstr(Lower(Strip(cfg.keywords[i])), hay)

\* lower-cased title + newline + lower-cased description, missing = ""
Haystack(t) ==
    Lower(OrEmpty(t.title)) \o <<"\n">> \o Lower(OrEmpty(t.description))

\* trim(title + " " + description), missing = ""
TrimmedText(t) == Strip(OrEmpty(t.title) \o <<" ">> \o OrEmpty(t.description))

\* would embed(text) on embedder e reach the provider
ReachesProvider(e, text) ==
    e.client /\ text # <<>> /\ text \notin DOMAIN e.cache

\* C8: when a configured keyword is a substring of the haystack, is_relevant
\* returns true and makes no embedding call: the provider call count and the
\* embedding cache are the same after the call as before it.
C8_ShortCircuit ==
    (probe.op = "is_relevant" /\ ConfiguredKeywordIn(Haystack(probe.t)))
        => /\ probe.decision = TRUE
           /\ probe.kw = TRUE
           /\ probe.after.calls = probe.before.calls
           /\ probe.after.cache = probe.before.cache

\* C8 witness: a keyword hit on a record whose text is not cached while a
\* provider is configured, so an embedding call would have reached it
C8_Witness ==
    /\ probe.op = "is_relevant"
    /\ ConfiguredKeywordIn(Haystack(probe.t))
    /\ ReachesProvider(probe.before, TrimmedText(probe.t))
    /\ probe.decision = TRUE

\* cos(a, b) >= p / q over the reals, with cos = 0 when a vector is empty,
\* the lengths differ or a norm is zero
CosineAtLeast(a, b, th) ==
    LET degenerate == a = <<>> \/ b = <<>> \/ Len(a) # Len(b)
                        \/ Dot(a, a) = 0 \/ Dot(b, b) = 0
        d  == Dot(a, b)
        nn == Dot(a, a) * Dot(b, b)
    IN  IF degenerate THEN th.p <= 0
        ELSE IF th.p >= 0
             THEN d >= 0 /\ th.q * th.q * d * d >= th.p * th.p * nn
             ELSE d >= 0 \/ th.q * th.q * d * d <= th.p * th.p * nn

\* the vector embed answers for a stripped text on embedder e
EmbeddingOf(e, text) == IF text = <<>> THEN Zeros(Dim) ELSE e.cache[text]

\* C9: for a record with no keyword hit, is_relevant is true iff the cosine
\* similarity of the reference vector and the embedding of
\* trim(title + " " + description) is at least the threshold.
C9_SimilarityDecision ==
    (probe.op = "is_relevant" /\ ~ConfiguredKeywordIn(Haystack(probe.t)))
        => LET text == TrimmedText(probe.t) IN
           /\ text = <<>> \/ text \in DOMAIN probe.after.cache
           /\ probe.decision =
                CosineAtLeast(rel.query_vec, EmbeddingOf(probe.after, text),
                              cfg.similarity_threshold)

\* C9 witness: no keyword is configured and the similarity of two
\* non-degenerate vectors equals the threshold exactly: relevant
C9_Witness ==
    /\ probe.op = "is_relevant"
    /\ cfg.keywords = <<>>
    /\ probe.t.title # None /\ probe.t.description # None
    /\ LET v == EmbeddingOf(probe.after, TrimmedText(probe.t))
           d == Dot(rel.query_vec, v)
           th == cfg.similarity_threshold
       IN  /\ d > 0 /\ th.p > 0 /\ th.p < th.q
           /\ th.q * th.q * d * d = th.p * th.p * Dot(v, v) * Dot(rel.query_vec, rel.query_vec)
    /\ probe.decision = TRUE

\* C10: explain and is_relevant, called one after the other on the same
\* record, give the same decision, and explain's kw_hit is true exactly when
\* is_relevant took the keyword short-circuit.
C10_ExplainAgrees ==
    (/\ probe.op \in {"is_relevant", "explain"}
     /\ probe.prev.op \in {"is_relevant", "explain"}
     /\ probe.prev.op # probe.op
     /\ probe.prev.t = probe.t)
        => /\ probe.decision = probe.prev.decision
           /\ probe.kw = probe.prev.kw

\* C10 witnesses: explain after is_relevant on a record accepted on its
\* similarity alone
C10_Witness ==
    /\ probe.op = "explain" /\ probe.prev.op = "is_relevant"
    /\ probe.prev.t = probe.t
    /\ ~probe.kw /\ probe.decision

-----------------------------------------------------------------------------
(* Properties of the pipeline (checked under Spec) *)

RowsOf(rows) == {rows[j] : j \in 1..Len(rows)}

\* the store has answered the batch upsert of this run and nothing has
\* touched the table since
StoreAnswered ==
    /\ obs.path \in {"rpc", "fallback"}
    /\ run.pc \in {"post", "summary"}
    /\ obs.effects = <<>>

\* a call of run_once has returned
RunDone == run.pc = "idle" /\ run.n >= 1

\* the side effects run_once has for a newly inserted record
SideEffects == {"update_embedding", "notify", "set_notified_at", "crm"}

\* how often step `kind` was executed for the j-th newly inserted record
Times(kind, j) ==
    Cardinality({n \in 1..Len(obs.effects) :
                    obs.effects[n].kind = kind /\ obs.effects[n].idx = j})

\* C3: upsert_tenders_return_inserted returns exactly the submitted rows
\* whose identity was not stored before the call, and every row stored
\* before the call is still there unchanged; on the RPC path and on the
\* table-upsert fallback path.
C3_UpsertReturnsNewOnly ==
    StoreAnswered
        => /\ RowsOf(obs.returned) =
                {r \in RowsOf(obs.submitted) : Ident(r) \notin Idents(obs.pre)}
           /\ Len(store) >= Len(obs.pre)
           /\ \A k \in 1..Len(obs.pre) : store[k] = obs.pre[k]

\* C3, where it fails: the fallback path has answered for a batch holding a
\* tender whose (source_portal, source_id) was stored before the call
C3_Witness ==
    /\ StoreAnswered
    /\ obs.path = "fallback"
    /\ \E r \in RowsOf(obs.submitted) : HasSourceId(r) /\ Ident(r) \in Idents(obs.pre)
    /\ \E r \in RowsOf(obs.returned) : Ident(r) \in Idents(obs.pre)
    /\ \E k \in 1..Len(obs.pre) : store[k] # obs.pre[k]

\* two consecutive runs saw the same scraper output, every record of it
\* carrying a source_id, and the second run is past its store call
SameInputTwice ==
    /\ run.n >= 2
    /\ run.pc \in {"post", "summary", "idle"}
    /\ \A k \in SourceIdx :
        /\ obs.fetched[k].ok /\ hist.fetched[k].ok
        /\ obs.fetched[k].items = hist.fetched[k].items
        /\ \A j \in 1..Len(obs.fetched[k].items) : HasSourceId(obs.fetched[k].items[j])

\* C1: when run_once runs twice on the same scraper output (records with a
\* source_id) against the same store, the first run gets each distinct
\* (source_portal, source_id) that was not stored yet reported as newly
\* inserted exactly once, and the second run has no newly inserted row and
\* executes no embedding persistence, notification, mark-notified or CRM push.
C1_DedupOnRerun ==
    SameInputTwice
        => /\ \A id \in Idents(hist.submitted) \ Idents(hist.pre) :
                Cardinality({j \in 1..Len(hist.returned) :
                                Ident(hist.returned[j]) = id}) = 1
           /\ run.inserted_rows = <<>>
           /\ \A n \in 1..Len(obs.effects) : obs.effects[n].kind \notin SideEffects

\* C1, where it fails: the second of two runs on the same input has finished
\* with side effects for a tender the first run had already inserted
C1_Witness ==
    /\ SameInputTwice /\ run.pc = "idle"
    /\ \E n \in 1..Len(obs.effects) :
        /\ obs.effects[n].kind \in SideEffects
        /\ Ident(run.inserted_rows[obs.effects[n].idx]) \in Idents(hist.returned)

\* C2: update_embedding, notify_tender, set_notified_at and crm.push are
\* executed only for records the store reported as newly inserted in this
\* run, and never for a record whose identity was stored before the run.
C2_SideEffectsOnlyForNew ==
    \A n \in 1..Len(obs.effects) :
        obs.effects[n].kind \in SideEffects
            => LET r == run.inserted_rows[obs.effects[n].idx] IN
               /\ r.tender_hash \in {x.tender_hash : x \in RowsOf(obs.returned)}
               /\ Ident(r) \notin Idents(obs.pre)

\* C2, where it fails: a tender stored and notified before the run is
\* notified again
C2_Witness ==
    \E n \in 1..Len(obs.effects) :
        /\ obs.effects[n].kind = "notify"
        /\ LET r == run.inserted_rows[obs.effects[n].idx] IN
           \E k \in 1..Len(obs.pre) :
               Ident(obs.pre[k]) = Ident(r) /\ obs.pre[k].notified_at

\* the items of a feed as ensure_tender coerces them
Coerced(items) == [j \in 1..Len(items) |-> ensure_tender(items[j])]

\* _run_with_retries has returned for the current source
Returned == run.pc = "filter"

\* C4: _run_with_retries never raises, whatever fetch does (success,
\* timeout, exception, an item that cannot be coerced); it returns the
\* coerced records of the first try that succeeds and makes no try and no
\* sleep after it; it returns the empty list when every try failed.
C4_RetriesNeverRaise ==
    /\ obs.path = "none" => (~obs.raised /\ run.pc # "raised")
    /\ Returned =>
        IF obs.fetched[run.si].ok
        THEN /\ run.tenders = Coerced(feed[run.si])
             /\ \A j \in 1..Len(run.tenders) : run.tenders[j].kind = "Tender"
             /\ obs.attempts = run.i
             /\ obs.sleeps = run.i - 1
        ELSE /\ run.tenders = <<>>
             /\ obs.attempts = run.i

\* C4 witness: the second try succeeded after a failed first one and
\* returned a record coerced from a dict
C4_Witness ==
    /\ Returned
    /\ obs.fetched[run.si].ok
    /\ obs.attempts = 2 /\ obs.sleeps = 1
    /\ \E j \in 1..Len(run.tenders) :
        feed[run.si][j].kind = "dict" /\ run.tenders[j].kind = "Tender"

\* C5: a source all of whose tries fail gets exactly N tries and N - 1
\* backoff sleeps, none after the last failed try, and the empty list is
\* returned, where N = 1 + max(0, cfg.retry_attempts) >= 1.
C5_RetryExhaustion ==
    LET N == IF cfg.retry_attempts > 0 THEN 1 + cfg.retry_attempts ELSE 1 IN
    /\ (Returned /\ ~obs.fetched[run.si].ok)
            => obs.attempts = N /\ obs.sleeps = N - 1 /\ run.tenders = <<>>
    /\ run.pc = "sleep" => obs.attempts < N
    /\ obs.attempts <= N /\ obs.sleeps <= N - 1

\* C5 witness: a source exhausted after two tries and one sleep
C5_Witness ==
    /\ Returned /\ ~obs.fetched[run.si].ok
    /\ cfg.retry_attempts = 1
    /\ obs.attempts = 2 /\ obs.sleeps = 1
    /\ feed[run.si] # <<>>

\* the rows of the batch that came from source k
RowsFrom(k) ==
    SelectSeq(run.all_rows, LAMBDA r : r.source_portal = Scrapers[k].portal)

RECURSIVE FetchedUpTo(_)
FetchedUpTo(k) ==
    IF k = 0 THEN 0 ELSE Len(obs.fetched[k].items) + FetchedUpTo(k - 1)

\* the loop over the sources is over
SourcesDone ==
    run.n >= 1 /\ run.pc \in {"scraped", "post", "summary", "idle", "raised"}

\* C6: whichever sources fail, run_once does not raise on their account and
\* emits exactly one summary; an exhausted source contributes no record; the
\* records of every other source are fetched, filtered (each one counted as
\* submitted or skipped) and submitted; when nothing is relevant the store
\* is not called and the summary reports Upserted 0.
C6_SourceIsolation ==
    /\ obs.raised => obs.path = "failed"
    /\ Len(obs.summaries) <= 1
    /\ RunDone => Len(obs.summaries) = 1
    /\ SourcesDone =>
        /\ \A k \in SourceIdx :
            IF obs.fetched[k].ok
            THEN /\ obs.fetched[k].items = Coerced(feed[k])
                 /\ \A j \in 1..Len(obs.fetched[k].items) :
                        ConfiguredKeywordIn(Haystack(obs.fetched[k].items[j]))
                            => to_db_row(obs.fetched[k].items[j]) \in RowsOf(RowsFrom(k))
            ELSE obs.fetched[k].items = <<>> /\ RowsFrom(k) = <<>>
        /\ run.total_found = FetchedUpTo(Len(Scrapers))
        /\ Len(run.all_rows) + run.skipped_kw + run.skipped_sim = run.total_found
    /\ obs.path # "none" => (run.all_rows # <<>> /\ obs.submitted = Norm(run.all_rows))
    /\ (RunDone /\ run.all_rows = <<>>)
            => /\ obs.path = "none"
               /\ store = obs.pre
               /\ obs.summaries[1].upserted = 0

\* C6 witness: a run has ended with its summary although the first source
\* was exhausted, and the record of the second source was submitted
C6_Witness ==
    /\ RunDone
    /\ feed[1] # <<>> /\ ~obs.fetched[1].ok
    /\ obs.fetched[2].ok /\ obs.submitted # <<>>
    /\ obs.submitted = Norm(RowsFrom(2))
    /\ Len(obs.summaries) = 1

\* C7: a failure of the embedding, embedding-persist, notify, mark-notified
\* or CRM step for one newly inserted record keeps none of these steps from
\* being executed for the later newly inserted records of the batch, and the
\* run still ends with its summary.
C7_RecordIsolation ==
    /\ (obs.effects # <<>> => ~obs.raised)
    /\ (RunDone /\ obs.path \in {"rpc", "fallback"})
            => /\ Len(obs.summaries) = 1
               /\ obs.summaries[1].upserted = Len(run.inserted_rows)
               /\ \A j \in 1..Len(run.inserted_rows) :
                    \A kind \in SideEffects \cup {"embed"} : Times(kind, j) = 1

\* C7 witness: a step failed for the first of two newly inserted records
\* and the run has ended
C7_Witness ==
    /\ RunDone
    /\ Len(run.inserted_rows) >= 2
    /\ \E n \in 1..Len(obs.effects) : obs.effects[n].idx = 1 /\ ~obs.effects[n].ok
    /\ Times("crm", Len(run.inserted_rows)) = 1

\* the records fetched in this run, in fetch order
RECURSIVE FetchedThrough(_)
FetchedThrough(k) ==
    IF k = 0 THEN <<>> ELSE FetchedThrough(k - 1) \o obs.fetched[k].items

AllFetched == FetchedThrough(Len(Scrapers))

\* the embedder holds the embedding of the record's text
Embedded(t) == TrimmedText(t) = <<>> \/ TrimmedText(t) \in DOMAIN emb.cache

\* is_relevant's answer as the contract states it: a configured keyword in
\* the haystack, or a similarity of the reference vector and the record's
\* embedding that is at least the threshold
Accepts(t) ==
    \/ ConfiguredKeywordIn(Haystack(t))
    \/ /\ Embedded(t)
       /\ CosineAtLeast(rel.query_vec, EmbeddingOf(emb, TrimmedText(t)),
                        cfg.similarity_threshold)

AcceptedRows ==
    LET acc == SelectSeq(AllFetched, Accepts)
    IN  [j \in 1..Len(acc) |-> to_db_row(acc[j])]

\* C11: the rows submitted to the store are exactly the fetched records that
\* is_relevant accepts, in fetch order, and every other fetched record is
\* counted in exactly one skip counter: total fetched = rows submitted +
\* skipped(keyword) + skipped(similarity).
C11_SubmittedAreTheRelevant ==
    (run.pc = "scraped" \/ StoreAnswered)
        => /\ \A j \in 1..Len(AllFetched) :
                ConfiguredKeywordIn(Haystack(AllFetched[j])) \/ Embedded(AllFetched[j])
           /\ run.all_rows = AcceptedRows
           /\ run.total_found = Len(AllFetched)
           /\ run.skipped_kw + run.skipped_sim = Len(AllFetched) - Len(AcceptedRows)
           /\ obs.path # "none" => obs.submitted = Norm(AcceptedRows)

\* C11 witness: of three fetched records, one with a keyword, one without a
\* keyword but at or above the threshold and one below it, exactly the first
\* two were submitted
C11_Witness ==
    /\ StoreAnswered
    /\ Len(AllFetched) = 3 /\ Len(obs.submitted) = 2
    /\ \E i, j, k \in 1..3 :
        /\ ConfiguredKeywordIn(Haystack(AllFetched[i]))
        /\ ~ConfiguredKeywordIn(Haystack(AllFetched[j])) /\ Accepts(AllFetched[j])
        /\ ~Accepts(AllFetched[k])
    /\ run.skipped_kw + run.skipped_sim = 1

\* C12: the Upserted number of the run summary equals the number of rows the
\* store reported as newly inserted in that run, whatever the batch (rows
\* sharing a tender_hash included) and whatever the store replied.
C12_UpsertedIsInsertedCount ==
    (RunDone /\ obs.path \in {"rpc", "fallback"})
        => obs.summaries[1].upserted = Len(obs.returned)

\* C12, where it fails: the batch held the same tender twice, the store
\* inserted and reported it once, and the summary says Upserted: 2
C12_Witness ==
    /\ RunDone /\ obs.path = "rpc"
    /\ Len(obs.submitted) = 2 /\ obs.submitted[1] = obs.submitted[2]
    /\ Len(obs.returned) = 1
    /\ obs.summaries[1].upserted = 2

\* the stored record at position k is notified and stays so in the next state
StaysNotified(k) ==
    store[k].notified_at
        => /\ k <= Len(store')
           /\ store'[k].notified_at
           /\ store'[k].source_portal = store[k].source_portal
           /\ store'[k].source_id = store[k].source_id

\* marking again, one hash or several, leaves every notified record notified
MarkingKeepsNotified ==
    \A hs \in SUBSET {store[k].tender_hash : k \in 1..Len(store)} :
        \A k \in 1..Len(store) :
            /\ store[k].notified_at => MarkNotified(store, hs)[k].notified_at
            /\ store[k].notified_at
                    => SetNotifiedAt(store, store[k].tender_hash)[k].notified_at

\* C13: once notified_at is set for a record no later step returns it to
\* unset (a failing CRM push, a repeated mark, the processing of later
\* records, a later run), and marking a notified record leaves it notified.
C13_NotifiedIsNeverRolledBack ==
    /\ []MarkingKeepsNotified
    /\ [][\A k \in 1..Len(store) : StaysNotified(k)]_vars

\* C13 witness: in a later run a record that was notified before the run
\* has been marked again, its CRM push has failed, and it is still notified
C13_Witness ==
    /\ run.n >= 2 /\ RunDone
    /\ \E j \in 1..Len(run.inserted_rows) :
        /\ \E k \in 1..Len(obs.pre) :
            /\ obs.pre[k].notified_at
            /\ Ident(obs.pre[k]) = Ident(run.inserted_rows[j])
            /\ store[k].notified_at
        /\ \E n, m \in 1..Len(obs.effects) :
            /\ obs.effects[n] = [kind |-> "set_notified_at", idx |-> j, ok |-> TRUE]
            /\ obs.effects[m] = [kind |-> "crm", idx |-> j, ok |-> FALSE]

HashesOf(rows) == {rows[j].tender_hash : j \in 1..Len(rows)}

Occurrences(h, rows) == Cardinality({j \in 1..Len(rows) : rows[j].tender_hash = h})

\* a record without a source_id, with fingerprint h, was in the batch of the
\* run before and is in the batch of this run, once each, and the store has
\* answered in this run
FedInTwoRuns(h) ==
    /\ run.n >= 2
    /\ run.pc \in {"post", "summary", "idle"}
    /\ Occurrences(h, hist.submitted) = 1
    /\ Occurrences(h, obs.submitted) = 1
    /\ \A j \in 1..Len(obs.submitted) :
        obs.submitted[j].tender_hash = h => ~HasSourceId(obs.submitted[j])

\* C14: a record without a source_id that goes through the pipeline in two
\* runs with the same (source_portal, title, buyer, link), hence the same
\* fingerprint, is newly inserted, and so notified, at most once.
C14_FingerprintDedup ==
    \A h \in HashesOf(obs.submitted) :
        FedInTwoRuns(h)
            => /\ ~(h \in HashesOf(hist.returned) /\ h \in HashesOf(obs.returned))
               /\ h \in HashesOf(hist.returned)
                    => \A n \in 1..Len(obs.effects) :
                         obs.effects[n].kind = "notify"
                            => run.inserted_rows[obs.effects[n].idx].tender_hash # h

\* C14, where it fails: the record was inserted in the run before, is stored
\* twice after this run and has been notified again
C14_Witness ==
    \E h \in HashesOf(obs.submitted) :
        /\ FedInTwoRuns(h) /\ RunDone
        /\ h \in HashesOf(hist.returned)
        /\ Occurrences(h, store) = 2
        /\ \E n \in 1..Len(obs.effects) :
            /\ obs.effects[n].kind = "notify"
            /\ run.inserted_rows[obs.effects[n].idx].tender_hash = h

-----------------------------------------------------------------------------
(* Calls of row_hash: SpecHash *)

\* the links of the rows row_hash is called on
LinkBase == <<"h","t","t","p",":","/","/","h","/","p">>

\* a link whose host does not parse
LinkBad == <<"h","t","t","p",":","/","/","[","h","/","p">>

LinkChoices ==
    { None,
      LinkBase,
      LinkBase \o <<"/">>,
      LinkBase \o <<"#","f">>,
      LinkBase \o <<"?","a","=","1","&","b","=","2">>,
      LinkBase \o <<"?","b","=","2","&","a","=","1">>,
      LinkBase \o <<"?","b","=","2","&","a","=","1","#","f">>,
      LinkBase \o <<"?","a","=","1","&","a","=","0">>,
      LinkBase \o <<"?","a","=","0","&","a","=","1","#","g">>,
      LinkBase \o <<"/","?","a","=","1","&","b","=","2">>,
      LinkBad \o <<"#","f">>,
      LinkBad \o <<"#","g">> }

\* the rows row_hash is called on
HashRows ==
    [source_portal : { <<"q","t">>, <<" ","q","t","\n">> },
     source_id     : { None, <<"A"," ","1">>, <<"A","\t"," ","1">> },
     title         : { <<"I","T"," ","o","p","s">>, <<" ","I","T","\n"," ","o","p","s"," ">>,
                       <<"I","T","o","p","s">> },
     buyer         : { None, <<" ">> },
     link          : LinkChoices]

\* two rows are drawn; no call has been made
InitHash ==
    \E a \in HashRows, b \in HashRows :
        /\ cfg = [keywords |-> <<>>, similarity_threshold |-> [p |-> 1, q |-> 2],
                  retry_attempts |-> 1]
        /\ LET f == NewFilter(cfg, NewEmbedder(FALSE), Failure)
           IN  rel = f.rel /\ emb = f.emb
        /\ probe = [op |-> "none", n |-> 0, prev |-> [op |-> "none"], r1 |-> a, r2 |-> b]
        /\ feed = [k \in SourceIdx |-> <<>>]
        /\ store = <<>>
        /\ run = IdleRun
        /\ obs = NoObs
        /\ hist = Past(NoObs)
        /\ faults = 0

\* row_hash is called on both rows
RowHashCall ==
    /\ probe.op = "none"
    /\ probe' = [op |-> "row_hash", n |-> 1, prev |-> [op |-> "none"],
                 r1 |-> probe.r1, r2 |-> probe.r2,
                 h1 |-> row_hash(probe.r1), h2 |-> row_hash(probe.r2)]
    /\ UNCHANGED <<cfg, emb, rel, feed, store, run, obs, hist, faults>>

NextHash == RowHashCall

SpecHash == InitHash /\ [][NextHash]_vars

-----------------------------------------------------------------------------
(* Properties of the fingerprint *)

\* the words of a text: its maximal runs of characters that are not
\* whitespace
RECURSIVE Words(_)
Words(s) ==
    IF s = <<>> THEN <<>>
    ELSE IF s[1] \in WS THEN Words(Tail(s))
    ELSE LET e == Find(s, WS, 1)
         IN  IF e = 0 THEN <<s>>
             ELSE <<SubSeq(s, 1, e - 1)>> \o Words(From(s, e))

\* two optional texts that are equal up to whitespace; a missing one counts
\* as the empty one
SameUpToWs(a, b) == Words(OrEmpty(a)) = Words(OrEmpty(b))

SameIdentityFields(a, b) ==
    /\ SameUpToWs(a.source_portal, b.source_portal)
    /\ SameUpToWs(a.source_id, b.source_id)
    /\ SameUpToWs(a.title, b.title)
    /\ SameUpToWs(a.buyer, b.buyer)

\* a link cut at its first "#" and then at its first "?"
LinkParts(l) ==
    LET u == OrEmpty(l)
        h == Find(u, {"#"}, 1)
        r == IF h = 0 THEN u ELSE SubSeq(u, 1, h - 1)
        q == Find(r, {"?"}, 1)
    IN  [stem     |-> IF q = 0 THEN r ELSE SubSeq(r, 1, q - 1),
         params   |-> IF q = 0 THEN <<>> ELSE Split(From(r, q + 1), "&"),
         fragment |-> IF h = 0 THEN <<>> ELSE From(u, h + 1)]

Count(x, s) == Cardinality({j \in 1..Len(s) : s[j] = x})

\* one list is the other in another order
Permuted(s, t) ==
    /\ Len(s) = Len(t)
    /\ \A j \in 1..Len(s) : Count(s[j], s) = Count(s[j], t)

\* links that differ at most in the order of the query's parameters and in
\* the fragment
SameUpToQueryOrderAndFragment(l1, l2) ==
    /\ LinkParts(l1).stem = LinkParts(l2).stem
    /\ Permuted(LinkParts(l1).params, LinkParts(l2).params)

\* C15: two rows whose source_portal, source_id, title and buyer are equal
\* up to whitespace (a missing value counting as the empty one) and whose
\* links differ only in the order of the query's parameters or in the
\* fragment have the same row_hash.
C15_FingerprintStability ==
    (/\ probe.op = "row_hash"
     /\ SameIdentityFields(probe.r1, probe.r2)
     /\ SameUpToQueryOrderAndFragment(probe.r1.link, probe.r2.link))
        => probe.h1 = probe.h2

\* the link is missing or is a URL that urlparse accepts
Parses(l) == l = None \/ ~urlparse(l).error

\* C15, for links that parse: two rows whose source_portal, source_id,
\* title and buyer are equal up to whitespace and whose links parse as URLs
\* and differ only in the order of the query's parameters or in the
\* fragment have the same row_hash.
C15_StabilityOfParsedLinks ==
    (/\ probe.op = "row_hash"
     /\ SameIdentityFields(probe.r1, probe.r2)
     /\ Parses(probe.r1.link) /\ Parses(probe.r2.link)
     /\ SameUpToQueryOrderAndFragment(probe.r1.link, probe.r2.link))
        => probe.h1 = probe.h2

\* row_hash was called on two rows that differ in the whitespace of every
\* text field, in the order of the query's parameters and in the fragment
C15_Witness ==
    /\ probe.op = "row_hash"
    /\ SameIdentityFields(probe.r1, probe.r2)
    /\ SameUpToQueryOrderAndFragment(probe.r1.link, probe.r2.link)
    /\ probe.r1.source_portal # probe.r2.source_portal
    /\ probe.r1.source_id # probe.r2.source_id
    /\ probe.r1.title # probe.r2.title
    /\ probe.r1.buyer # probe.r2.buyer
    /\ LinkParts(probe.r1.link).params # LinkParts(probe.r2.link).params
    /\ LinkParts(probe.r1.link).fragment # LinkParts(probe.r2.link).fragment
    /\ Parses(probe.r1.link) /\ Parses(probe.r2.link)
    /\ probe.h1 = probe.h2

\* links that differ only by a slash at the end of the path
SameUpToTrailingSlash(l1, l2) ==
    /\ LinkParts(l1).params = LinkParts(l2).params
    /\ LinkParts(l1).fragment = LinkParts(l2).fragment
    /\ \/ LinkParts(l1).stem = LinkParts(l2).stem \o <<"/">>
       \/ LinkParts(l2).stem = LinkParts(l1).stem \o <<"/">>

\* C16: two rows with the same identity-bearing fields whose links differ
\* only by a slash at the end of the URL's path have the same tender_hash.
C16_TrailingSlashIgnored ==
    (/\ probe.op = "row_hash"
     /\ probe.r1.source_portal = probe.r2.source_portal
     /\ probe.r1.source_id = probe.r2.source_id
     /\ probe.r1.title = probe.r2.title
     /\ probe.r1.buyer = probe.r2.buyer
     /\ SameUpToTrailingSlash(probe.r1.link, probe.r2.link))
        => probe.h1 = probe.h2

\* row_hash was called on two rows that are the same but for a slash at the
\* end of the link's path
C16_Witness ==
    /\ probe.op = "row_hash"
    /\ probe.r1.source_portal = probe.r2.source_portal
    /\ probe.r1.source_id = probe.r2.source_id
    /\ probe.r1.title = probe.r2.title
    /\ probe.r1.buyer = probe.r2.buyer
    /\ SameUpToTrailingSlash(probe.r1.link, probe.r2.link)
    /\ LinkParts(probe.r1.link).params # <<>>

-----------------------------------------------------------------------------
(* Calls of embed and embed_many on an Embedder: SpecEmb *)

\* calls made on the embedder in one behaviour of SpecEmb
MaxEmbedCalls == 2

\* embed_many is called with at most MaxTexts texts
MaxTexts == 2

\* the texts the embedder is called with
EmbTexts == { None, <<" ">>, <<"a">>, <<"a", " ">>, <<"b">> }

\* cfg.embedding_batch_size
BatchSizes == { 0, 1, 2 }

\* what the provider answers a chunk with: vectors of any length, fewer or
\* more of them than texts were sent
ChunkAnswers ==
    { <<>>,
      << <<1>> >>,
      << <<3, 4>>, <<-3, 4, 1, 1>> >>,
      << <<-3, 4, 1, 1>>, <<1>>, <<3, 4>> >> }

ChunkOutcomes ==
    {[fails |-> 0, embs |-> a] : a \in ChunkAnswers}
        \cup {[fails |-> 1, embs |-> << <<3, 4>>, <<1>> >>]}
        \cup {[fails |-> 2, embs |-> << <<3, 4>>, <<1>> >>]}
        \cup {[fails |-> 3, embs |-> <<>>]}

\* no call made yet, or the embedder just built
NoCall(n) == [op |-> "none", n |-> n, texts |-> <<>>, out |-> <<>>,
              events |-> <<>>, before |-> <<>>]

\* Embedder(cfg): with or without a client, the cache empty
InitEmb ==
    \E client \in BOOLEAN, bs \in BatchSizes :
        /\ cfg = [keywords |-> <<>>, similarity_threshold |-> [p |-> 1, q |-> 2],
                  retry_attempts |-> 1, embedding_batch_size |-> bs]
        /\ emb = NewEmbedder(client)
        /\ rel = [keywords |-> <<>>, query_vec |-> Zeros(Dim),
                  threshold |-> cfg.similarity_threshold]
        /\ probe = NoCall(0)
        /\ feed = [k \in SourceIdx |-> <<>>]
        /\ store = <<>>
        /\ run = IdleRun
        /\ obs = NoObs
        /\ hist = <<>>
        /\ faults = 0

\* the chunks embed_many(texts) sends to the provider
NChunks(e, bs, texts) ==
    LET n == Len(MapIdx(e, texts, 1))
        c == IF bs > 1 THEN bs ELSE 1
    IN  IF ~e.client THEN 0 ELSE (n + c - 1) \div c

\* the fallback vectors call n returned, by stripped text, added to those
\* seen before (the first one seen for a text is kept, with its call)
RECURSIVE Fallbacks(_, _, _, _)
Fallbacks(seen, events, out, n) ==
    IF events = <<>> THEN seen
    ELSE LET ev  == events[1]
             new == IF ev.kind # "fallback" THEN seen
                    ELSE [s \in DOMAIN seen \cup {ev.texts[j] : j \in 1..Len(ev.texts)} |->
                            IF s \in DOMAIN seen THEN seen[s]
                            ELSE [n   |-> n,
                                  vec |-> out[ev.idx[CHOOSE j \in 1..Len(ev.texts) :
                                                        ev.texts[j] = s]]]]
         IN  Fallbacks(new, Tail(events), out, n)

\* a call of embed(text)
EmbedCall ==
    /\ probe.n < MaxEmbedCalls
    /\ \E text \in EmbTexts, resp \in ProviderOutcomes :
          LET s       == Strip(OrEmpty(text))
              reached == emb.client /\ s # <<>> /\ s \notin DOMAIN emb.cache
              got     == embed(emb, text, resp)
              events  == (IF got.emb.calls > emb.calls THEN <<Requested(<<s>>, <<1>>)>> ELSE <<>>)
                         \o (IF reached /\ ~resp.ok THEN <<GaveUp(<<s>>, <<1>>)>> ELSE <<>>)
                         \o (IF got.emb.cache # emb.cache THEN <<Wrote(s, got.emb.cache[s])>> ELSE <<>>)
          IN  /\ reached \/ resp = Failure
              /\ emb' = got.emb
              /\ probe' = [op |-> "embed", n |-> probe.n + 1, texts |-> <<text>>,
                           out |-> <<got.vec>>, events |-> events, before |-> emb.cache]
              /\ hist' = Fallbacks(hist, events, <<got.vec>>, probe.n + 1)
    /\ UNCHANGED <<cfg, rel, feed, store, run, obs, faults>>

\* a call of embed_many(texts)
EmbedManyCall ==
    /\ probe.n < MaxEmbedCalls
    /\ \E texts \in SeqsUpTo(EmbTexts, MaxTexts) :
          \E outs \in [1..NChunks(emb, cfg.embedding_batch_size, texts) -> ChunkOutcomes] :
              LET got == embed_many(emb, cfg.embedding_batch_size, texts, outs)
              IN  /\ emb' = got.emb
                  /\ probe' = [op |-> "embed_many", n |-> probe.n + 1, texts |-> texts,
                               out |-> got.vecs, events |-> got.events,
                               before |-> emb.cache]
                  /\ hist' = Fallbacks(hist, got.events, got.vecs, probe.n + 1)
    /\ UNCHANGED <<cfg, rel, feed, store, run, obs, faults>>

\* the process is restarted: a new Embedder, with or without a client
Restart ==
    /\ probe.n < MaxEmbedCalls
    /\ emb.cache # <<>>
    /\ \E client \in BOOLEAN : emb' = NewEmbedder(client)
    /\ probe' = NoCall(probe.n)
    /\ UNCHANGED <<cfg, rel, feed, store, run, obs, hist, faults>>

NextEmb == EmbedCall \/ EmbedManyCall \/ Restart

SpecEmb == InitEmb /\ [][NextEmb]_vars

-----------------------------------------------------------------------------
(* Properties of the embedder *)

Called == probe.op \in {"embed", "embed_many"}

\* the events of the last call that are of kind k
EventsOf(k) == SelectSeq(probe.events, LAMBDA ev : ev.kind = k)

C18_FailureFallsBack ==
    Called =>
        /\ Len(probe.out) = Len(probe.texts)
        /\ \A k \in 1..Len(probe.events) :
              LET ev == probe.events[k]
              IN  ev.kind = "fallback" =>
                     \A j \in 1..Len(ev.texts) :
                        /\ Strip(OrEmpty(probe.texts[ev.idx[j]])) = ev.texts[j]
                        /\ probe.out[ev.idx[j]] = _fallback_vector(ev.texts[j], Dim)
                        /\ ev.texts[j] \in DOMAIN hist
                        /\ probe.out[ev.idx[j]] = hist[ev.texts[j]].vec

\* the second call, on an Embedder built after a restart, had a chunk of
\* two texts fail whose first text had already got its fallback vector in
\* the first call
C18_Witness ==
    /\ probe.op = "embed_many"
    /\ probe.n = 2
    /\ \E k \in 1..Len(probe.events) :
          /\ probe.events[k].kind = "fallback"
          /\ Len(probe.events[k].texts) = 2
          /\ probe.events[k].texts[1] # probe.events[k].texts[2]
          /\ hist[probe.events[k].texts[1]].n = 1
          /\ hist[probe.events[k].texts[2]].n = 2
    /\ Len(EventsOf("request")) = 3

\* a text that is None, empty or made of whitespace only
Blank(t) == t = None \/ \A i \in 1..Len(t) : t[i] \in WS

RECURSIVE CacheBefore(_)
CacheBefore(k) ==
    IF k <= 1 THEN probe.before
    ELSE LET ev == probe.events[k - 1]
         IN  IF ev.kind = "write" THEN Put(CacheBefore(k - 1), ev.texts[1], ev.vec)
             ELSE CacheBefore(k - 1)

\* C20: the cache is write-once per key.  In a call of embed or embed_many
\* an entry that exists is not changed or removed, the call returns the
\* cached vector for its text, and no request is sent for a text that is
\* cached when the request is made.
C20_CacheWriteOnce ==
    Called =>
        /\ \A s \in DOMAIN probe.before :
              s \in DOMAIN emb.cache /\ emb.cache[s] = probe.before[s]
        /\ \A i \in 1..Len(probe.texts) :
              Strip(OrEmpty(probe.texts[i])) \in DOMAIN probe.before
                  => probe.out[i] = probe.before[Strip(OrEmpty(probe.texts[i]))]
        /\ \A k \in 1..Len(probe.events) :
              LET ev == probe.events[k]
              IN  /\ ev.kind = "write" /\ ev.texts[1] \in DOMAIN CacheBefore(k)
                        => ev.vec = CacheBefore(k)[ev.texts[1]]
                  /\ ev.kind = "request"
                        => \A j \in 1..Len(ev.texts) : ev.texts[j] \notin DOMAIN CacheBefore(k)

\* embed_many was called with the same text twice, sent one chunk per text,
\* and the first chunk failed while the second was answered
C20_Witness ==
    /\ probe.op = "embed_many"
    /\ Len(probe.texts) = 2
    /\ Strip(OrEmpty(probe.texts[1])) = Strip(OrEmpty(probe.texts[2]))
    /\ Len(EventsOf("fallback")) = 1
    /\ Len(EventsOf("request")) = 4
    /\ Len(EventsOf("write")) = 2
    /\ probe.out[1] # probe.out[2]
    /\ emb.cache[Strip(OrEmpty(probe.texts[1]))] = probe.out[2]

\* the last call was not given the same text twice
NoRepeatedText ==
    \A i, j \in 1..Len(probe.texts) :
        i # j /\ ~Blank(probe.texts[i])
            => Strip(OrEmpty(probe.texts[i])) # Strip(OrEmpty(probe.texts[j]))

\* the cache is write-once in the calls that are not given a text twice
WriteOnceWithoutRepeats == NoRepeatedText => C20_CacheWriteOnce

-----------------------------------------------------------------------------
(* _run_with_retries on one scraper, with its timeouts and sleeps: SpecRetry *)

\* cfg.retry_attempts ranges over -1 .. MaxBackoffRetries in SpecRetry
MaxBackoffRetries == 3

\* the names of the scrapers TenderBot.__init__ runs by default, each the
\* `name` of its class in scrapers.SCRAPERS
ScraperNames == { "static_example", "austender", "qtenders" }

\* the keys of the overrides dict of _timeout_for
OverrideKeys == { "austender", "qtenders", "tendersvic", "static-example" }

\* the environment variable each key of the overrides dict is read from
EnvVars ==
    [austender |-> "TIMEOUT_AUSTENDER", qtenders |-> "TIMEOUT_QTENDERS",
     tendersvic |-> "TIMEOUT_TENDERSVIC", static_example |-> "TIMEOUT_STATIC_EXAMPLE"]

\* what each key reads: overrides[key] = int(os.getenv(var, "0"))
VarOfKey(key) ==
    IF key = "austender" THEN EnvVars.austender
    ELSE IF key = "qtenders" THEN EnvVars.qtenders
    ELSE IF key = "tendersvic" THEN EnvVars.tendersvic
    ELSE EnvVars.static_example

\* _timeout_for(scraper_name, cfg): overrides.get(scraper_name, 0) or
\* cfg.scraper_timeout_seconds
_timeout_for(scraper_name, c) ==
    LET got == IF scraper_name \in OverrideKeys THEN c.env[VarOfKey(scraper_name)] ELSE 0
    IN  IF got # 0 THEN got ELSE c.scraper_timeout_seconds

\* _run_with_retries with the exponent taken from the 1-based try (a
\* variant whose first delay is twice the base)
sleep_for_one_based(i, c, jitter) ==
    (IF c.retry_backoff_base > 1 THEN c.retry_backoff_base ELSE 1) * (2 ^ i) * 1000 + jitter

\* _run_with_retries, the sleep after failed try i, in milliseconds:
\* base = max(1, cfg.retry_backoff_base), delay = base * 2 ** (i - 1),
\* sleep_for = delay + jitter, with jitter the randint drawn, in ms
sleep_for(i, c, jitter) ==
    (IF c.retry_backoff_base > 1 THEN c.retry_backoff_base ELSE 1) * (2 ^ (i - 1)) * 1000 + jitter

\* random.randint(0, max(0, cfg.retry_jitter_ms)): what may be drawn
Jitters(c) == 0..(IF c.retry_jitter_ms > 0 THEN c.retry_jitter_ms ELSE 0)

\* cfg.retry_backoff_base, cfg.retry_jitter_ms, cfg.scraper_timeout_seconds
\* and the TIMEOUT_* variables as configured
BackoffBases == { -1, 0, 1, 2 }
JitterMs == { -1, 0, 1 }
DefaultTimeouts == { 15, 30 }
OverrideValues == { 0, 7 }

\* _run_with_retries(scraper, cfg) is entered for one of the scrapers
InitRetry ==
    \E ra \in (0 - 1)..MaxBackoffRetries, base \in BackoffBases, jm \in JitterMs,
       dt \in DefaultTimeouts, name \in ScraperNames,
       env \in [{EnvVars.austender, EnvVars.qtenders, EnvVars.static_example} -> OverrideValues] :
        /\ cfg = [keywords |-> <<>>, similarity_threshold |-> [p |-> 1, q |-> 2],
                  retry_attempts |-> ra, retry_backoff_base |-> base,
                  retry_jitter_ms |-> jm, scraper_timeout_seconds |-> dt,
                  env |-> [v \in {EnvVars.austender, EnvVars.qtenders,
                                  EnvVars.tendersvic, EnvVars.static_example} |->
                              IF v = EnvVars.tendersvic THEN 0 ELSE env[v]]]
        /\ emb = NewEmbedder(FALSE)
        /\ rel = [keywords |-> <<>>, query_vec |-> Zeros(Dim),
                  threshold |-> cfg.similarity_threshold]
        /\ probe = [op |-> "retry", n |-> 0, prev |-> [op |-> "none"], name |-> name,
                    i |-> 1, pc |-> "try", timeouts |-> <<>>, sleeps |-> <<>>]
        /\ feed = [k \in SourceIdx |-> <<>>]
        /\ store = <<>>
        /\ run = IdleRun
        /\ obs = NoObs
        /\ hist = Past(NoObs)
        /\ faults = 0

\* try i: the fetch runs under _timeout_for(scraper.name, cfg) and returns
TimedTryReturns ==
    /\ probe.op = "retry" /\ probe.pc = "try"
    /\ probe' = [probe EXCEPT !.pc = "returned",
                              !.timeouts = Append(@, _timeout_for(probe.name, cfg))]
    /\ UNCHANGED <<cfg, emb, rel, feed, store, run, obs, hist, faults>>

\* try i: the fetch runs under _timeout_for(scraper.name, cfg) and times
\* out or raises; a sleep follows if tries are left
TimedTryFails ==
    /\ probe.op = "retry" /\ probe.pc = "try"
    /\ probe' = [probe EXCEPT !.pc = IF probe.i < Attempts THEN "sleep" ELSE "exhausted",
                              !.timeouts = Append(@, _timeout_for(probe.name, cfg))]
    /\ UNCHANGED <<cfg, emb, rel, feed, store, run, obs, hist, faults>>

\* the sleep after failed try i, with the jitter drawn
BackoffSleep ==
    /\ probe.op = "retry" /\ probe.pc = "sleep"
    /\ \E jitter \in Jitters(cfg) :
          probe' = [probe EXCEPT !.pc = "try", !.i = @ + 1,
                                 !.sleeps = Append(@, sleep_for(probe.i, cfg, jitter))]
    /\ UNCHANGED <<cfg, emb, rel, feed, store, run, obs, hist, faults>>

NextRetry == TimedTryReturns \/ TimedTryFails \/ BackoffSleep

SpecRetry == InitRetry /\ [][NextRetry]_vars

-----------------------------------------------------------------------------
(* Properties of the timeouts and of the backoff *)

\* the override configured for a source: the TIMEOUT_ variable of its name
OverrideOf(name) ==
    IF name = "static_example" THEN cfg.env["TIMEOUT_STATIC_EXAMPLE"]
    ELSE IF name = "austender" THEN cfg.env["TIMEOUT_AUSTENDER"]
    ELSE cfg.env["TIMEOUT_QTENDERS"]

\* C21: for every registered source name, the timeout applied to its fetch
\* is the override configured for that source when it is not zero, and the
\* default scraper_timeout_seconds otherwise.
C21_TimeoutOverride ==
    probe.op = "retry" =>
        \A k \in 1..Len(probe.timeouts) :
            probe.timeouts[k] = IF OverrideOf(probe.name) # 0
                                THEN OverrideOf(probe.name)
                                ELSE cfg.scraper_timeout_seconds

\* a fetch of static_example was tried with an override configured for it
C21_Witness ==
    /\ probe.op = "retry"
    /\ probe.name = "static_example"
    /\ OverrideOf(probe.name) = 7
    /\ Len(probe.timeouts) >= 1

\* the timeout of the sources whose name is a key of the overrides
TimeoutOverrideOfKeyedNames ==
    (probe.op = "retry" /\ probe.name \in {"austender", "qtenders"})
        => C21_TimeoutOverride

\* C24 as stated: the sleep after the k-th failed try is
\* retry_backoff_base * 2^(k-1) seconds plus a jitter of 0 to
\* retry_jitter_ms milliseconds, for every configured base.
C24_BackoffSchedule ==
    probe.op = "retry" =>
        \A k \in 1..Len(probe.sleeps) :
            \E j \in 0..cfg.retry_jitter_ms :
                probe.sleeps[k] = cfg.retry_backoff_base * (2 ^ (k - 1)) * 1000 + j

\* the base and the bound of the jitter that _run_with_retries works with
EffectiveBase == IF cfg.retry_backoff_base >= 1 THEN cfg.retry_backoff_base ELSE 1
EffectiveJitterMs == IF cfg.retry_jitter_ms >= 0 THEN cfg.retry_jitter_ms ELSE 0

\* C24, with the base taken as at least 1 and the jitter bound as at least
\* 0: the sleep after the k-th failed try is base * 2^(k-1) seconds plus a
\* jitter of 0 to the bound; the first is base seconds plus jitter, and
\* without the jitter each sleep is twice the one before.
C24_BackoffScheduleClamped ==
    probe.op = "retry" =>
        /\ \A k \in 1..Len(probe.sleeps) :
              \E j \in 0..EffectiveJitterMs :
                  probe.sleeps[k] = EffectiveBase * (2 ^ (k - 1)) * 1000 + j
        /\ Len(probe.sleeps) >= 1
              => probe.sleeps[1] \in (EffectiveBase * 1000)..(EffectiveBase * 1000 + EffectiveJitterMs)
        /\ \A k \in 1..(Len(probe.sleeps) - 1) :
              \E j1 \in 0..EffectiveJitterMs, j2 \in 0..EffectiveJitterMs :
                  probe.sleeps[k + 1] - j2 = 2 * (probe.sleeps[k] - j1)

\* three sleeps were taken with base 2 and a jitter bound of 1 ms, the
\* jitter drawn once 0 and once 1
C24_Witness ==
    /\ probe.op = "retry"
    /\ cfg.retry_backoff_base = 2
    /\ cfg.retry_jitter_ms = 1
    /\ probe.sleeps = <<2001, 4000, 8001>>

-----------------------------------------------------------------------------
(* Further properties of the pipeline *)

\* C22: when the batch upsert fails (the RPC and the fallback both), the
\* error leaves run_once: no embedding is persisted, nothing is notified,
\* marked or pushed for any record of the run, the store is as the run found
\* it, and no step of the run (no second upsert either) follows; when the
\* store answers, on the RPC or on the fallback after a failed RPC, nothing
\* is raised.
C22_StoreFailureSurfaced ==
    /\ [](obs.path = "failed"
            => /\ obs.raised
               /\ run.pc = "raised"
               /\ obs.effects = <<>>
               /\ obs.summaries = <<>>
               /\ store = obs.pre)
    /\ [](obs.path \in {"rpc", "fallback"} => ~obs.raised)
    /\ [][run.pc # "raised"]_vars

\* the batch upsert of a second run failed with two rows in the batch and
\* rows in the store
C22_Witness ==
    /\ obs.path = "failed"
    /\ obs.raised
    /\ run.n = 2
    /\ Len(obs.submitted) = 2
    /\ store # <<>>

-----------------------------------------------------------------------------
(* Tender construction with the closing fields: SpecTender *)

\* __post_init__ with closing_date always taken from closing_ts (a variant
\* that overwrites the date the producer gave)
post_init_closing_date_overwriting(closing_date, closing_ts) ==
    IF closing_ts # None /\ closing_ts # <<>> /\ Len(closing_ts) >= 10
    THEN SubSeq(closing_ts, 1, 10)
    ELSE closing_date

\* Tender.__post_init__, the closing date: derived from closing_ts when no
\* closing_date is given and closing_ts has at least 10 characters
post_init_closing_date(closing_date, closing_ts) ==
    IF (closing_date = None \/ closing_date = <<>>)
       /\ closing_ts # None /\ closing_ts # <<>>
       /\ Len(closing_ts) >= 10
    THEN SubSeq(closing_ts, 1, 10)
    ELSE closing_date

\* what a producer hands over: the arguments of Tender(...), or a dict with
\* these keys
ClosingDates == { None, <<>>, <<"2","0","2","5","-","0","3","-","0","4">> }

ClosingStamps ==
    { None, <<>>, <<"T","B","A">>,
      <<"2","0","2","5","-","0","1","-","0">>,
      <<"2","0","2","5","-","0","1","-","0","2">>,
      <<"2","0","2","5","-","0","1","-","0","2","T","1","7">> }

Produced ==
    [kind : {"Tender", "dict"},
     source_id : {None, <<"A","1">>}, atm_id : {None, <<"B","2">>},
     closing_date : ClosingDates, closing_ts : ClosingStamps]

\* the Tender built from what was produced: by Tender(...) itself, or by
\* ensure_tender from the dict's closing_date and closing_ts
Construct(x) ==
    LET base == IF x.kind = "Tender"
                THEN Tender(<<"q","t">>, x.source_id, x.atm_id, <<"I","T">>, None, None, None)
                ELSE ensure_tender(Dict(<<"q","t">>, x.source_id, x.atm_id, <<"I","T">>, None))
    IN  [f \in DOMAIN base \cup {"closing_date", "closing_ts"} |->
            IF f = "closing_date" THEN post_init_closing_date(x.closing_date, x.closing_ts)
            ELSE IF f = "closing_ts" THEN x.closing_ts
            ELSE base[f]]

InitTender ==
    \E x \in Produced :
        /\ cfg = [keywords |-> <<>>, similarity_threshold |-> [p |-> 1, q |-> 2],
                  retry_attempts |-> 1]
        /\ emb = NewEmbedder(FALSE)
        /\ rel = [keywords |-> <<>>, query_vec |-> Zeros(Dim),
                  threshold |-> cfg.similarity_threshold]
        /\ probe = [op |-> "none", n |-> 0, prev |-> [op |-> "none"], given |-> x]
        /\ feed = [k \in SourceIdx |-> <<>>]
        /\ store = <<>>
        /\ run = IdleRun
        /\ obs = NoObs
        /\ hist = Past(NoObs)
        /\ faults = 0

\* the Tender is constructed
ConstructTender ==
    /\ probe.op = "none"
    /\ probe' = [op |-> "construct", n |-> 1, prev |-> [op |-> "none"],
                 given |-> probe.given, built |-> Construct(probe.given)]
    /\ UNCHANGED <<cfg, emb, rel, feed, store, run, obs, hist, faults>>

NextTender == ConstructTender

SpecTender == InitTender /\ [][NextTender]_vars

\* an optional text that is given: neither None nor empty
Given(x) == x # None /\ x # <<>>

\* the first 10 characters of a text
First10(s) == SubSeq(s, 1, IF Len(s) < 10 THEN Len(s) ELSE 10)

\* C23 as stated: a Tender built with a non-empty closing_ts and no
\* closing_date exposes the first 10 characters of closing_ts as its
\* closing_date, and a closing_date that was given is kept.
C23_ClosingDateDerived ==
    probe.op = "construct" =>
        /\ (Given(probe.given.closing_ts) /\ ~Given(probe.given.closing_date))
              => probe.built.closing_date = First10(probe.given.closing_ts)
        /\ Given(probe.given.closing_date)
              => probe.built.closing_date = probe.given.closing_date

\* C23, for a closing_ts of at least 10 characters: a Tender built with
\* such a closing_ts and no closing_date exposes its first 10 characters as
\* closing_date; with a shorter closing_ts the closing_date stays as it was
\* given; a closing_date that was given is kept.
C23_ClosingDateDerivedFromLongStamp ==
    probe.op = "construct" =>
        /\ (Given(probe.given.closing_ts) /\ ~Given(probe.given.closing_date))
              => probe.built.closing_date =
                    IF Len(probe.given.closing_ts) >= 10
                    THEN First10(probe.given.closing_ts)
                    ELSE probe.given.closing_date
        /\ Given(probe.given.closing_date)
              => probe.built.closing_date = probe.given.closing_date

\* a Tender was built from a dict with a closing_ts of 13 characters and no
\* closing_date, and exposes the date
C23_Witness ==
    /\ probe.op = "construct"
    /\ probe.given.kind = "dict"
    /\ probe.given.closing_date = None
    /\ Len(probe.given.closing_ts) = 13
    /\ probe.built.closing_date = <<"2","0","2","5","-","0","1","-","0","2">>

\* the steps of run_once for one newly inserted record, in order
StepOrder == <<"embed", "update_embedding", "notify", "set_notified_at", "crm">>

\* C25: for each newly inserted record the steps are taken in the order
\* embed, persist embedding, notify, mark notified, CRM push, the records
\* in batch order and every step of one record before any step of the next;
\* so the mark-notified step of a record never comes before its
\* notification, and its CRM push never before its mark-notified step.
C25_StepOrder ==
    /\ \A n \in 1..Len(obs.effects) :
          /\ obs.effects[n].kind = StepOrder[((n - 1) % Len(StepOrder)) + 1]
          /\ obs.effects[n].idx = ((n - 1) \div Len(StepOrder)) + 1
          /\ obs.effects[n].idx <= Len(run.inserted_rows)
    /\ \A n \in 1..Len(obs.effects) :
          /\ obs.effects[n].kind = "set_notified_at"
                => \E m \in 1..(n - 1) : /\ obs.effects[m].kind = "notify"
                                         /\ obs.effects[m].idx = obs.effects[n].idx
          /\ obs.effects[n].kind = "crm"
                => \E m \in 1..(n - 1) : /\ obs.effects[m].kind = "set_notified_at"
                                         /\ obs.effects[m].idx = obs.effects[n].idx
    /\ (RunDone /\ obs.path \in {"rpc", "fallback"})
          => Len(obs.effects) = Len(StepOrder) * Len(run.inserted_rows)

\* a run with two newly inserted records has ended, all ten steps taken
C25_Witness ==
    /\ RunDone
    /\ Len(run.inserted_rows) = 2
    /\ Len(obs.effects) = 10
    /\ obs.effects[5].kind = "crm" /\ obs.effects[5].idx = 1
    /\ obs.effects[6].kind = "embed" /\ obs.effects[6].idx = 2

\* the effects of one kind recorded in this run for rows with fingerprint h
EffectsFor(kind, h) ==
    {n \in 1..Len(obs.effects) :
        /\ obs.effects[n].kind = kind
        /\ run.inserted_rows[obs.effects[n].idx].tender_hash = h}

\* C28: within one run each stored record the store reported as newly
\* inserted is notified at most once, marked notified at most once and
\* pushed to the CRM at most once, also when the batch holds several rows
\* with the same tender_hash.
C28_SideEffectsAtMostOnce ==
    \A h \in HashesOf(obs.returned) :
        \A kind \in {"notify", "set_notified_at", "crm"} :
            Cardinality(EffectsFor(kind, h)) <= 1

\* C28, where it fails: the batch held the same tender twice, the store
\* inserted it once, and the one stored record was notified, marked and
\* pushed twice
C28_Witness ==
    /\ RunDone /\ obs.path = "rpc"
    /\ Len(obs.submitted) = 2
    /\ obs.submitted[1].tender_hash = obs.submitted[2].tender_hash
    /\ Len(obs.returned) = 1
    /\ \A kind \in {"notify", "set_notified_at", "crm"} :
          Cardinality(EffectsFor(kind, obs.returned[1].tender_hash)) = 2

\* cfg.keywords are the keywords the filter uses: lower-cased and non-blank
KeywordsAsFiltered ==
    /\ cfg.keywords = rel.keywords
    /\ \A i \in 1..Len(cfg.keywords) :
          /\ Strip(cfg.keywords[i]) # <<>>
          /\ Lower(cfg.keywords[i]) = cfg.keywords[i]

\* the filter loop of the run is over
Filtered == run.n >= 1 /\ run.pc \in {"scraped", "post", "summary", "idle", "raised"}

\* a step that raises the similarity counter rejects the record at hand,
\* and the driver's keyword check on that record hit
SimSkipOnlyAfterKeywordHit ==
    run'.skipped_sim > run.skipped_sim
        => /\ run.pc = "filter" /\ run.ti <= Len(run.tenders)
           /\ AnyIn(cfg.keywords, Hay(run.tenders[run.ti]))
           /\ run'.skipped_sim = run.skipped_sim + 1
           /\ run'.all_rows = run.all_rows

\* C29: the similarity skip counter is raised only for a record is_relevant
\* rejected although the driver's keyword check hit; with cfg.keywords the
\* lower-cased non-blank keywords of the filter, Skipped(relevance_sim) is 0
\* in every run and Skipped(relevance_kw) is the number of rejected records,
\* those rejected on similarity included.
C29_SkipAttribution ==
    /\ [][SimSkipOnlyAfterKeywordHit]_vars
    /\ [](KeywordsAsFiltered => run.skipped_sim = 0)
    /\ []((KeywordsAsFiltered /\ Filtered)
            => run.skipped_kw = run.total_found - Len(run.all_rows))
    /\ []((KeywordsAsFiltered /\ RunDone /\ obs.summaries # <<>>)
            => /\ obs.summaries[1].skipped_sim = 0
               /\ obs.summaries[1].skipped_kw
                      = obs.summaries[1].found - Len(run.all_rows))

\* C29 witness: a run has ended in which a record without a keyword was
\* embedded and rejected because its similarity was below the threshold, and
\* the summary counts it under the keyword reason
C29_Witness ==
    /\ RunDone /\ obs.summaries # <<>>
    /\ KeywordsAsFiltered
    /\ \E j \in 1..Len(AllFetched) :
          /\ ~ConfiguredKeywordIn(Haystack(AllFetched[j]))
          /\ TrimmedText(AllFetched[j]) \in DOMAIN emb.cache
          /\ ~Accepts(AllFetched[j])
    /\ obs.summaries[1].skipped_kw = 1
    /\ obs.summaries[1].skipped_sim = 0
    /\ obs.summaries[1].found = 3

\* the embed step of the record at hand is taken in this step
EmbedStepTaken ==
    /\ run.pc = "post" /\ run.step = "embed"
    /\ run'.step # "embed"

\* C30: for every newly inserted record, one without a title or without a
\* description included, the text embedded after the insert is
\* trim(title + " " + description) with a missing field taken as empty, the
\* text the relevance filter embeds for it; so after the step the embedder
\* holds no other text than before and that one, and for a record whose text
\* the filter embedded the step makes no provider call.
C30_EmbeddingTextConsistency ==
    [][EmbedStepTaken
         => /\ DOMAIN emb'.cache \subseteq (DOMAIN emb.cache \cup {TrimmedText(Cur)})
            /\ TrimmedText(Cur) # <<>> => TrimmedText(Cur) \in DOMAIN emb'.cache
            /\ TrimmedText(Cur) \in DOMAIN emb.cache => emb'.calls = emb.calls]_vars

\* C30, where it fails: the record at hand has no description, its embed
\* step is done, and the text that was embedded and cached is the title
\* followed by the word None
C30_Witness ==
    /\ run.pc = "post" /\ run.step = "persist"
    /\ Cur.title # None /\ Cur.description = None
    /\ (Cur.title \o <<" ", "N", "o", "n", "e">>) \in DOMAIN emb.cache
    /\ TrimmedText(Cur) \notin DOMAIN emb.cache
    /\ obs.effects[Len(obs.effects)] = Effect("embed", TRUE)

\* chunk = max(1, self.batch_size), as the contract of embed_many has it
ChunkSize == IF cfg.embedding_batch_size >= 1 THEN cfg.embedding_batch_size ELSE 1

\* the positions the last call had to query, in order
Queried == MapIdx([emb EXCEPT !.cache = probe.before], probe.texts, 1)

\* the chunks of the last call, each named by the positions it holds
ChunkIds == {probe.events[n].idx : n \in {m \in 1..Len(probe.events) :
                                            probe.events[m].kind = "request"}}

\* the requests of chunk c among the first n events of the last call
RequestsUpTo(c, n) ==
    Cardinality({m \in 1..n : /\ probe.events[m].kind = "request"
                              /\ probe.events[m].idx = c})

\* the chunks that were given up
GivenUp == {probe.events[n].idx : n \in {m \in 1..Len(probe.events) :
                                           probe.events[m].kind = "fallback"}}

\* the k-th chunk of the queried positions
KthChunk(k) ==
    SubSeq(Queried, (k - 1) * ChunkSize + 1,
           IF k * ChunkSize < Len(Queried) THEN k * ChunkSize ELSE Len(Queried))

\* C26: embed_many sends at most 3 requests per chunk, sleeps
\* 1.5 * 2^attempt seconds after a failed attempt before the next one, and
\* after the third failure gives the texts of that chunk, and of no other
\* chunk, their fallback vectors; the cursor advances by max(1, batch_size),
\* so every queried position is in exactly one chunk and the call returns a
\* vector for every text, whatever the provider does.
C26_BoundedBatchRetry ==
    (probe.op = "embed_many" /\ emb.client) =>
        /\ Len(probe.out) = Len(probe.texts)
        /\ \A c \in ChunkIds : RequestsUpTo(c, Len(probe.events)) \in 1..3
        /\ \A n \in 1..Len(probe.events) :
              LET ev == probe.events[n] IN
              /\ ev.kind = "sleep" =>
                    /\ n > 1 /\ n < Len(probe.events)
                    /\ probe.events[n - 1].kind = "request"
                    /\ probe.events[n - 1].idx = ev.idx
                    /\ probe.events[n + 1].kind = "request"
                    /\ probe.events[n + 1].idx = ev.idx
                    /\ ev.ms = 1500 * (2 ^ (RequestsUpTo(ev.idx, n) - 1))
              /\ (ev.kind = "request" /\ n < Len(probe.events)
                    /\ probe.events[n + 1].kind = "request")
                    => probe.events[n + 1].idx # ev.idx
              /\ ev.kind = "fallback" =>
                    /\ RequestsUpTo(ev.idx, n) = 3
                    /\ RequestsUpTo(ev.idx, Len(probe.events)) = 3
                    /\ \A j \in 1..Len(ev.idx) :
                          probe.out[ev.idx[j]] = _fallback_vector(ev.texts[j], Dim)
        /\ \A c \in ChunkIds \ GivenUp :
              \A j \in 1..Len(c) :
                  probe.out[c[j]]
                      # _fallback_vector(Strip(OrEmpty(probe.texts[c[j]])), Dim)
        /\ ChunkIds = {KthChunk(k) : k \in 1..((Len(Queried) + ChunkSize - 1) \div ChunkSize)}
        /\ \A c \in ChunkIds : c # <<>>
        /\ \A i \in 1..Len(Queried) :
              Cardinality({c \in ChunkIds : \E j \in 1..Len(c) : c[j] = Queried[i]}) = 1

\* C26 witness: a call with two chunks of one text; the first chunk failed
\* three times and was given up, the second failed twice and was answered
\* at the third attempt: three requests each, sleeps of 1.5 s and 3 s, the
\* fallback vector for the first text only
C26_Witness ==
    /\ probe.op = "embed_many" /\ emb.client
    /\ Len(probe.texts) = 2
    /\ ChunkIds = {<<1>>, <<2>>} /\ GivenUp = {<<1>>}
    /\ [n \in 1..Len(probe.events) |-> probe.events[n].kind]
          = <<"request", "sleep", "request", "sleep", "request", "fallback", "write",
              "request", "sleep", "request", "sleep", "request", "write">>
    /\ [n \in {2, 4, 9, 11} |-> probe.events[n].ms]
          = [n \in {2, 4, 9, 11} |-> IF n \in {2, 9} THEN 1500 ELSE 3000]
    /\ probe.out[1] = _fallback_vector(Strip(OrEmpty(probe.texts[1])), Dim)
    /\ probe.out[2] = <<3, 4>>

-----------------------------------------------------------------------------
(* scrapers/austender_scraper.py, scrapers/qtenders_scraper.py: fetch under
   _run_with_retries, with the browser it launches, the orchestrator's
   timeout and a cancellation from outside *)

\* cfg.retry_attempts is drawn from -1..MaxFetchRetries
MaxFetchRetries == 1

\* the scrapers that launch a browser
BrowserScrapers == {"austender", "qtenders"}

\* fetch closes the browser in a finally (austender) or as its last
\* statement only (qtenders)
ClosesInFinally(name) == name = "austender"

InitFetch ==
    \E name \in BrowserScrapers, ra \in (0 - 1)..MaxFetchRetries :
        /\ cfg = [keywords |-> <<>>, similarity_threshold |-> [p |-> 1, q |-> 2],
                  retry_attempts |-> ra]
        /\ emb = NewEmbedder(FALSE)
        /\ rel = [keywords |-> <<>>, query_vec |-> Zeros(Dim),
                  threshold |-> cfg.similarity_threshold]
        /\ probe = [op |-> "fetch", n |-> 0, prev |-> [op |-> "none"],
                    name |-> name,
                    attempts |-> 1 + (IF ra > 0 THEN ra ELSE 0),
                    i |-> 1, pc |-> "try",
                    playwright |-> "stopped", browser |-> "none", open |-> 0,
                    inflight |-> 0, pending |-> "none", hit |-> "none",
                    swallowed |-> FALSE, ext |-> FALSE, lost |-> FALSE,
                    result |-> "none"]
        /\ feed = [k \in SourceIdx |-> <<>>]
        /\ store = <<>>
        /\ run = IdleRun
        /\ obs = NoObs
        /\ hist = Past(NoObs)
        /\ faults = 0

Idle == UNCHANGED <<cfg, emb, rel, feed, store, run, obs, hist, faults>>

\* try i: asyncio.wait_for(scraper.fetch(), timeout); fetch enters
\* `async with async_playwright() as p`
AwaitFetch ==
    /\ probe.op = "fetch" /\ probe.pc = "try"
    /\ probe' = [probe EXCEPT !.pc = "launch", !.n = @ + 1,
                              !.playwright = "started", !.inflight = @ + 1,
                              !.browser = "none", !.pending = "none",
                              !.hit = "none", !.swallowed = FALSE]
    /\ Idle

\* browser = await p.chromium.launch(...)
LaunchBrowser ==
    /\ probe.op = "fetch" /\ probe.pc = "launch"
    /\ probe' = [probe EXCEPT !.pc = "scrape", !.browser = "open", !.open = @ + 1]
    /\ Idle

\* the launch raises: no browser, the exception leaves the async with
LaunchRaises ==
    /\ probe.op = "fetch" /\ probe.pc = "launch"
    /\ probe' = [probe EXCEPT !.pc = "exit", !.pending = "error"]
    /\ Idle

\* the pages are scraped to the end: austender falls into its finally,
\* qtenders reaches its last statement, await browser.close()
ScrapeReturns ==
    /\ probe.op = "fetch" /\ probe.pc = "scrape"
    /\ probe' = [probe EXCEPT !.pending = "return",
                              !.pc = IF ClosesInFinally(probe.name)
                                     THEN "finally" ELSE "close"]
    /\ Idle

\* a page action raises: austender falls into its finally, in qtenders the
\* exception leaves the async with at once
ScrapeRaises ==
    /\ probe.op = "fetch" /\ probe.pc = "scrape"
    /\ probe' = [probe EXCEPT !.pending = "error",
                              !.pc = IF ClosesInFinally(probe.name)
                                     THEN "finally" ELSE "exit"]
    /\ Idle

\* browser.close() on a handle: an open browser is closed, a closed one
\* stays closed (the error of a second close is passed over)
Closed(p) ==
    [p EXCEPT !.browser = IF @ = "open" THEN "closed" ELSE @,
              !.open = IF p.browser = "open" THEN @ - 1 ELSE @]

\* A CancelledError is raised in fetch at the await it is suspended on,
\* because the orchestrator's timeout ran out or the run was cancelled from
\* outside.  `left` is the state an interrupted browser.close() leaves the
\* browser in.
Deliver(kind, left) ==
    /\ probe.op = "fetch" /\ probe.inflight = 1 /\ probe.hit = "none"
    /\ probe.pc \in {"launch", "scrape", "finally", "close"}
    /\ probe' =
          IF probe.pc = "launch"
          THEN [probe EXCEPT !.hit = kind, !.pending = kind, !.pc = "exit",
                             !.ext = @ \/ kind = "external"]
          ELSE IF probe.pc = "scrape"
          THEN IF ClosesInFinally(probe.name)
               \* except asyncio.CancelledError: close, raise; then finally
               THEN [Closed(probe) EXCEPT !.hit = kind, !.pending = kind,
                                          !.pc = "finally",
                                          !.ext = @ \/ kind = "external"]
               ELSE [probe EXCEPT !.hit = kind, !.pending = kind, !.pc = "exit",
                                  !.ext = @ \/ kind = "external"]
          ELSE IF probe.pc = "finally"
          \* try: await browser.close()  except: pass
          THEN [(IF left = "closed" THEN Closed(probe) ELSE probe)
                    EXCEPT !.hit = kind, !.swallowed = TRUE, !.pc = "exit",
                           !.ext = @ \/ kind = "external"]
          \* qtenders' last statement, outside any try
          ELSE [(IF left = "closed" THEN Closed(probe) ELSE probe)
                    EXCEPT !.hit = kind, !.pending = kind, !.pc = "exit",
                           !.ext = @ \/ kind = "external"]
    /\ Idle

\* wait_for: the timeout runs out and the fetch is cancelled
WaitForTimeout ==
    \E left \in {"open", "closed"} :
        /\ probe.pc \in {"finally", "close"} \/ left = "open"
        /\ Deliver("timeout", left)

\* the task that runs the bot is cancelled while a fetch is in flight
ExternalCancel ==
    \E left \in {"open", "closed"} :
        /\ probe.pc \in {"finally", "close"} \/ left = "open"
        /\ Deliver("external", left)

\* austender, finally: try: await browser.close()  except: pass
FinallyClose ==
    /\ probe.op = "fetch" /\ probe.pc = "finally"
    /\ probe' = [Closed(probe) EXCEPT !.pc = "exit"]
    /\ Idle

\* qtenders, last statement of the async with body: await browser.close()
CloseAtEnd ==
    /\ probe.op = "fetch" /\ probe.pc = "close"
    /\ probe' = [Closed(probe) EXCEPT !.pc = "exit"]
    /\ Idle

\* the async with is left, fetch is over and control is back in wait_for
ExitPlaywright ==
    /\ probe.op = "fetch" /\ probe.pc = "exit"
    /\ probe' = [probe EXCEPT !.pc = "returned", !.playwright = "stopped",
                              !.inflight = @ - 1]
    /\ Idle

\* What wait_for hands to _run_with_retries.  A fetch that was cancelled
\* and raised the CancelledError ends as a timeout or as the cancellation;
\* one that passed over the CancelledError ends with its own result or
\* exception, and for a cancellation from outside wait_for either raises
\* the CancelledError itself or returns what the fetch returned.
Ending(p) ==
    IF ~p.swallowed \/ p.hit = "timeout" THEN {p.pending}
    ELSE {p.pending, "external"}

\* return [ensure_tender(x) for x in (result or [])]
FetchedList ==
    /\ probe.op = "fetch" /\ probe.pc = "returned"
    /\ "return" \in Ending(probe)
    /\ probe' = [probe EXCEPT !.pc = "done", !.result = "list",
                              !.lost = @ \/ probe.hit = "external"]
    /\ Idle

\* except TimeoutError / except Exception: logged; a sleep and the next
\* try, or "exhausted retries" and return []
FetchFailed ==
    /\ probe.op = "fetch" /\ probe.pc = "returned"
    /\ Ending(probe) \cap {"error", "timeout"} # {}
    /\ probe' = IF probe.i < probe.attempts
                THEN [probe EXCEPT !.pc = "sleep",
                                   !.lost = @ \/ probe.hit = "external"]
                ELSE [probe EXCEPT !.pc = "done", !.result = "empty",
                                   !.lost = @ \/ probe.hit = "external"]
    /\ Idle

\* a CancelledError is no Exception: it leaves _run_with_retries
CancelReraised ==
    /\ probe.op = "fetch" /\ probe.pc = "returned"
    /\ "external" \in Ending(probe)
    /\ probe' = [probe EXCEPT !.pc = "cancelled", !.result = "cancelled"]
    /\ Idle

\* await asyncio.sleep(sleep_for), then the next try
RetrySleep ==
    /\ probe.op = "fetch" /\ probe.pc = "sleep"
    /\ probe' = [probe EXCEPT !.pc = "try", !.i = @ + 1]
    /\ Idle

\* the task is cancelled during the backoff sleep
CancelDuringSleep ==
    /\ probe.op = "fetch" /\ probe.pc = "sleep"
    /\ probe' = [probe EXCEPT !.pc = "cancelled", !.result = "cancelled",
                              !.ext = TRUE]
    /\ Idle

NextFetch ==
    \/ AwaitFetch \/ LaunchBrowser \/ LaunchRaises
    \/ ScrapeReturns \/ ScrapeRaises
    \/ WaitForTimeout \/ ExternalCancel
    \/ FinallyClose \/ CloseAtEnd \/ ExitPlaywright
    \/ FetchedList \/ FetchFailed \/ CancelReraised
    \/ RetrySleep \/ CancelDuringSleep

SpecFetch == InitFetch /\ [][NextFetch]_vars

-----------------------------------------------------------------------------
(* Properties of the fetch under _run_with_retries (checked under SpecFetch) *)

\* at most one fetch is in flight
OneFetchInFlight == probe.inflight <= 1

\* austender's fetch, unless its browser.close() in the finally was cut
\* short by a cancellation, leaves no browser open; qtenders' fetch leaves
\* none when it returns its list without having been cancelled
ReleasedWhereClosed ==
    probe.pc = "returned" =>
        /\ (ClosesInFinally(probe.name) /\ ~probe.swallowed) => probe.browser # "open"
        /\ (~ClosesInFinally(probe.name) /\ probe.pending = "return")
              => probe.browser = "closed"

\* a cancellation from outside that fetch raised, or that came during the
\* backoff sleep, leaves _run_with_retries: no result, no further try
CancellationReachesOrchestrator ==
    /\ (probe.ext /\ probe.pc \in {"done", "sleep", "try"}) => probe.lost
    /\ (probe.pc = "returned" /\ probe.hit = "external" /\ ~probe.swallowed)
          => Ending(probe) = {"external"}

====
